---- MODULE Spec2Model ----
(***************************************************************************)
(* opa: a wrapper around xtrabackup.  One run of main() creates a          *)
(* generation directory opa_<YYYYMMDD-HHMMSS> under the backup root,       *)
(* checks versions and conditions, prunes old generations, drives the      *)
(* backup tool and repoints <root>/last and <root>/last.log.               *)
(*                                                                         *)
(* The model follows one backup root through a sequence of runs.  A        *)
(* generation is named by the second it was created in (1..MaxRuns); the   *)
(* order of the numbers is the lexicographic order of the directory names. *)
(* Byte counts are small integers.  The external programs (mysql,          *)
(* xtrabackup, tar, du, the condition commands) are black boxes whose      *)
(* outcomes are drawn from small sets.                                     *)
(***************************************************************************)
EXTENDS Integers, Sequences, FiniteSets, TLC

\* ---------------------------------------------------------------- bounds
MaxRuns == 2
MaxVersions == 2
MaxCmds == 2
MaxSrc == 20
MaxFree == 30

\* One run creates at most one generation directory and a second passes at
\* most once between two runs.
Gens == 1..MaxRuns
\* MySQL data directory sizes and free-space figures (in the same unit);
\* chosen so that 0.3*S, 1.2*S and 1.5*S meet a free-space figure exactly.
SrcSizes == {0, 10}
FreeSizes == {3, 12}
\* du of the finished generation directory
BakSizes == {5}

\* ---------------------------------------------------------------- state
VARIABLES
  versions,        \* config.versions
  delete_before,   \* config.delete_before
  strategy,        \* config.streamcompress / prepare / tgz of the current run
  gens,            \* the generation directories of the backup root
  last,            \* <root>/last: 0 absent, g a symlink to generation g (dangling
                   \* when g is gone), -1 a regular file, -2 a directory
  lastLog,         \* <root>/last.log: 0 absent, g a symlink to g/opa.log (dangling
                   \* when the log is gone), -1 a regular file, -2 a directory
  now,             \* the second of the latest StoreManager construction
  runs,            \* number of runs started
  pc,              \* position of main()
  current,         \* store_manager.current_dir.path (0 before construction)
  previous,        \* store_manager.previous_dir.path (0: the zero placeholder)
  bytesFree,       \* store_manager.current_dir.bytes_free as __init__ captured it
  freeNow,         \* the free bytes of the partition at this moment, as long as
                   \* the preflight has not passed (0 afterwards and when idle)
  srcBytes,        \* mysql_info.data_dir.bytes_used of the engine (-1 before)
  success,         \* local `success` of XtraBackup.execute
  result,          \* backup_result of main
  exitPlan,        \* which early exit main is on ("none" on the main path)
  exitCode,        \* process exit status (-1 while running)
  step,            \* the strategy step execute() has just invoked, with its outcome
  toolRuns,        \* backup-tool and compression subprocesses started in this run
  removed,         \* return value of the latest _cleanup
  pre,             \* the backup root as it was when the run started
  preCleanup,      \* generation directories as they were when _cleanup was entered
  cleanupArg,      \* the `versions` argument of the latest _cleanup (-1: none yet)
  ratioUsed,       \* compression ratio read by _check_free_space (NoRatio: none read)
  caught,          \* the call whose exception execute() or main caught ("none": no exception)
  invoked,         \* the strategy steps execute() has invoked in this run, in order
  cwdInfo,         \* info.json in the working directory of the process (NoInfo: none)
  infoRead,        \* return value of get_backup_info (NoInfo: not called)
  cwdStamp,        \* <item>.timestamp files in the working directory (NoFile: none)
  written,         \* per item, the latest store_database_backup_time: generation and value
  timeRead,        \* per item, the return value of get_database_backup_time
  versionEnv,      \* database version, installed tool version and distribution
                   \* handed to validate_xtrabackup_version on its own
  validation,      \* its return value (NoValidation: not called)
  versionCheck,    \* what the version check of main did (NoVersionCheck: not
                   \* yet, or its locals are dead)
  zbx,             \* what send_log_file is called with on its own: item key set or
                   \* not, the log file path and text, the backup result
  sent,            \* the value it handed to send_value (NoSent: none)
  store,           \* a StoreManager used on a backup root given by the names
                   \* and kinds of its entries (NoStore: none)
  cond             \* the latest call of a ConditionsManager method: its commands,
                   \* what it ran and returned (NoCond: none, or already consumed)

vars == <<versions, delete_before, strategy, gens, last, lastLog, now, runs,
          pc, current, previous, bytesFree, freeNow, srcBytes, success, result, exitPlan,
          exitCode, step, toolRuns, removed, pre, preCleanup, cleanupArg, ratioUsed,
          caught, invoked, cwdInfo, infoRead, cwdStamp, written, timeRead,
          versionEnv, validation, zbx, sent, store, store, versionCheck, cond>>

cfgVars == <<versions, delete_before, strategy>>
fsVars == <<gens, last, lastLog>>
smVars == <<now, runs, current, previous, bytesFree, freeNow>>
\* what the functions that are exercised on their own read and return
apiVars == <<cwdInfo, infoRead, cwdStamp, written, timeRead, versionEnv, validation,
             zbx, sent, store, store>>

\* ---------------------------------------------------------------- values
\* No compression ratio (a ratio is a pair <<numerator, denominator>>)
NoRatio == <<-1, 1>>

\* info.json of a generation: present or not, and the three BackupInfo fields
NoInfo ==
  [present |-> FALSE, mysql_data_dir_bytes_used |-> 0, backup_bytes_used |-> 0,
   compression_ratio |-> NoRatio]

\* The items (databases) that per-item timestamps are kept for
Items == {"db1", "db2"}

\* A datetime is <<second, microsecond>>; datetime(1900, 1, 1, 0, 0, 0) is
\* before every second of the model.
Sentinel == <<0, 0>>

\* No file; the text of a timestamp file is a sequence of its numeric parts.
NoFile == <<>>

\* No datetime: nothing written, nothing read
NoTime == <<-1, -1>>

\* A directory entry opa_<t> of the backup root: whether it exists, its
\* info.json, whether opa.log and the backup/ subdirectory exist, and its
\* <item>.timestamp files.
Absent ==
  [exists |-> FALSE, info |-> NoInfo, log |-> FALSE, backup |-> FALSE,
   stamps |-> [i \in Items |-> NoFile]]
EmptyDir ==
  [exists |-> TRUE, info |-> NoInfo, log |-> FALSE, backup |-> FALSE,
   stamps |-> [i \in Items |-> NoFile]]

\* BackupResult() defaults
BackupResult(s, f) ==
  [successful |-> s, failed |-> f, total |-> 1,
   all_skipped_successfully |-> FALSE, all_skipped_faulty |-> FALSE]

\* The three strategy flags; config.py rejects streamcompress with prepare or tgz.
Strategies ==
  {s \in [streamcompress : BOOLEAN, prepare : BOOLEAN, tgz : BOOLEAN] :
     ~(s.streamcompress /\ (s.prepare \/ s.tgz))}

Min(a, b) == IF a < b THEN a ELSE b
Max(a, b) == IF a > b THEN a ELSE b

SetMin(S) == CHOOSE x \in S : \A y \in S : x <= y
SetMax(S) == CHOOSE x \in S : \A y \in S : x >= y

\* list.sort(): the elements of S in ascending order
RECURSIVE Sorted(_)
Sorted(S) == IF S = {} THEN <<>> ELSE <<SetMin(S)>> \o Sorted(S \ {SetMin(S)})

Range(q) == {q[i] : i \in 1..Len(q)}

\* ---------------------------------------------------------------- StoreManager
\* _get_backup_dirs: the generation directories, oldest first
GetBackupDirs(g) == Sorted({d \in Gens : g[d].exists})

Dirs == {d \in Gens : gens[d].exists}

\* __init__, lines 38-44: the newest existing generation, or the zero placeholder
PreviousDir(g) ==
  LET dirs == GetBackupDirs(g)
  IN IF Len(dirs) = 0 THEN 0 ELSE dirs[Len(dirs)]

\* __init__, lines 46-50, and new_logger: makedirs(exist_ok=True) keeps an
\* existing directory of the same second with its contents; the log file is
\* opened with mode 'w', which creates or truncates it.
MakeCurrent(g, t) ==
  [g EXCEPT ![t] = [(IF g[t].exists THEN g[t] ELSE EmptyDir) EXCEPT !.log = TRUE]]

\* Mutant of RemovedBy: the surplus is taken from the newest end of the list.
RemovedByNewest(g, v) ==
  LET backup_dirs == GetBackupDirs(g)
  IN IF Len(backup_dirs) > v
     THEN SubSeq(backup_dirs, v + 1, Len(backup_dirs))
     ELSE <<>>

\* _cleanup(versions), lines 159-175: the paths it removes, oldest first
RemovedBy(g, v) ==
  LET backup_dirs == GetBackupDirs(g)
  IN IF Len(backup_dirs) > v
     THEN SubSeq(backup_dirs, 1, Len(backup_dirs) - v)
     ELSE <<>>

\* _cleanup(versions): the backup root after shutil.rmtree of each removed path
AfterCleanup(g, v) ==
  [d \in Gens |-> IF d \in Range(RemovedBy(g, v)) THEN Absent ELSE g[d]]

\* shutil.rmtree, line 172: the bytes the removal of these directories gives
\* back to the partition (a directory without backup files holds next to none)
RECURSIVE FreedBy(_, _)
FreedBy(g, dirs) ==
  IF dirs = <<>> THEN 0
  ELSE (IF g[Head(dirs)].backup THEN SetMax(BakSizes) ELSE 0) + FreedBy(g, Tail(dirs))

\* Mutant of CleanupAfterTarget: one generation fewer is kept.
CleanupAfterTargetOneLess(v) == v - 1

\* cleanup_before / cleanup_after, lines 123-127: the target handed to _cleanup
CleanupBeforeTarget(v) == v - 1
CleanupAfterTarget(v) == v

\* ---------------------------------------------------------------- ConditionsManager
\* What running one command can come to: an exit code, TimeoutExpired, or
\* another exception of subprocess.run (the shell cannot be started)
Timeout == -1
SpawnError == -2
CondOutcomes == {0, 1, 2, Timeout, SpawnError}

\* The configured commands of one list, each named by what running it comes to
CondCommands == UNION {[1..n -> CondOutcomes] : n \in 0..MaxCmds}

\* The command lists of a whole run: commands that exit with 0 or 1
CmdCodes == UNION {[1..n -> {0, 1}] : n \in 0..MaxCmds}

\* The terminate commands of a whole run: two that succeed, or a failing one
\* followed by one that succeeds
TerminateCodes == {<<0, 0>>, <<1, 0>>}

\* Mutant of ExecuteCondition: a timeout counts as exit code 0.
ExecuteConditionTimeoutPasses(outcome) ==
  IF outcome = Timeout THEN 0 ELSE IF outcome = SpawnError THEN 1 ELSE outcome

\* _execute_condition, lines 111-144: the exit code it returns
ExecuteCondition(outcome) ==
  IF outcome = Timeout THEN 1
  ELSE IF outcome = SpawnError THEN 1
  ELSE outcome

\* One executed command: its place in the list and the OMA_CURRENT_DIR of its
\* environment (0: env=None, the environment of the process)
Ran(i, dir) == [command |-> i, OMA_CURRENT_DIR |-> dir]

\* What a method returns and the commands it ran, in order
CondReturn(ret, ran) == [ret |-> ret, ran |-> ran]

\* Mutant of SkipLoop: the loop goes on after a command that exits 0.
RECURSIVE SkipLoopRunsAll(_, _, _)
SkipLoopRunsAll(commands, i, ran) ==
  IF i > Len(commands) THEN CondReturn(\E k \in 1..Len(commands) : commands[k] = 0, ran)
  ELSE SkipLoopRunsAll(commands, i + 1, Append(ran, Ran(i, 0)))

\* check_skip_conditions, lines 24-40: the loop from command i on
RECURSIVE SkipLoop(_, _, _)
SkipLoop(commands, i, ran) ==
  IF i > Len(commands) THEN CondReturn(FALSE, ran)
  ELSE IF ExecuteCondition(commands[i]) = 0 THEN CondReturn(TRUE, Append(ran, Ran(i, 0)))
  ELSE SkipLoop(commands, i + 1, Append(ran, Ran(i, 0)))

\* check_skip_conditions, lines 15-40
CheckSkipConditions(commands) ==
  IF Len(commands) = 0 THEN CondReturn(FALSE, <<>>) ELSE SkipLoop(commands, 1, <<>>)

\* Mutant of RunLoop: a failed command does not end the loop.
RECURSIVE RunLoopRunsAll(_, _, _)
RunLoopRunsAll(commands, i, ran) ==
  IF i > Len(commands) THEN CondReturn(\A k \in 1..Len(commands) : commands[k] = 0, ran)
  ELSE RunLoopRunsAll(commands, i + 1, Append(ran, Ran(i, 0)))

\* check_run_conditions, lines 50-68: the loop from command i on
RECURSIVE RunLoop(_, _, _)
RunLoop(commands, i, ran) ==
  IF i > Len(commands) THEN CondReturn(TRUE, ran)
  ELSE IF ExecuteCondition(commands[i]) # 0 THEN CondReturn(FALSE, Append(ran, Ran(i, 0)))
  ELSE RunLoop(commands, i + 1, Append(ran, Ran(i, 0)))

\* check_run_conditions, lines 42-68
CheckRunConditions(commands) ==
  IF Len(commands) = 0 THEN CondReturn(TRUE, <<>>) ELSE RunLoop(commands, 1, <<>>)

\* Mutant of TerminateLoop: the first failed command ends the loop.
RECURSIVE TerminateLoopStopsAtFailure(_, _, _, _, _)
TerminateLoopStopsAtFailure(commands, dir, i, all_success, ran) ==
  IF i > Len(commands) THEN CondReturn(all_success, ran)
  ELSE IF ExecuteCondition(commands[i]) # 0 THEN CondReturn(FALSE, Append(ran, Ran(i, dir)))
  ELSE TerminateLoopStopsAtFailure(commands, dir, i + 1, all_success,
                                   Append(ran, Ran(i, dir)))

\* execute_terminate_conditions, lines 85-109: the loop from command i on
RECURSIVE TerminateLoop(_, _, _, _, _)
TerminateLoop(commands, dir, i, all_success, ran) ==
  IF i > Len(commands) THEN CondReturn(all_success, ran)
  ELSE TerminateLoop(commands, dir, i + 1,
                     all_success /\ ExecuteCondition(commands[i]) = 0,
                     Append(ran, Ran(i, dir)))

\* execute_terminate_conditions(current_backup_dir), lines 70-109
ExecuteTerminateConditions(commands, dir) ==
  IF Len(commands) = 0 THEN CondReturn(TRUE, <<>>)
  ELSE TerminateLoop(commands, dir, 1, TRUE, <<>>)

\* A call of a ConditionsManager method
CondCall(fn, commands, dir, r) ==
  [fn |-> fn, commands |-> commands, dir |-> dir, ret |-> r.ret, ran |-> r.ran]

\* No call
NoCond == CondCall("none", <<>>, 0, CondReturn(FALSE, <<>>))

\* ---------------------------------------------------------------- xtrabackup_info
\* None as a download locator; a locator is <<tool release, distribution codename>>
None == <<>>

\* None as a version string
NoneVersion == "None"

\* Database versions (major.minor), tool versions (NoneVersion: binary not
\* found) and distributions (name, version) of the environment
MySQLVersions == {"5.6", "5.7", "8.0", "8.2", "8.4", "10.6"}
ToolVersions == {NoneVersion, "2.4", "8.0", "8.2", "8.4", "9.0"}
Distros ==
  {<<"debian", "11">>, <<"ubuntu", "24.04">>, <<"ubuntu", "11">>, <<"centos", "7">>,
   <<"unknown", "unknown">>}

VersionEnvs ==
  {[mysql_version |-> m, xtrabackup_version |-> x, distro_name |-> d[1], distro_version |-> d[2]] :
     m \in MySQLVersions, x \in ToolVersions, d \in Distros}

\* The environments a whole run is started in: main reads only the verdict
\* of the check, which the distribution has no part in
RunEnvs ==
  {e \in VersionEnvs : /\ e.mysql_version \in {"5.7", "8.0", "10.6"}
                       /\ e.xtrabackup_version \in {NoneVersion, "2.4", "8.0"}
                       /\ e.distro_name = "debian" /\ e.distro_version = "11"}

\* XTRABACKUP_VERSION_MAP, lines 18-68: the distribution versions per
\* distribution, each with the same five database versions
VersionMap == [debian |-> {"11", "12"}, ubuntu |-> {"20.04", "22.04", "24.04"}]
MapMySQL == {"5.6", "5.7", "8.0", "8.2", "8.4"}

\* The tool release a table entry points at (_BASE_24 .. _BASE_84)
Base(m) == IF m \in {"5.6", "5.7"} THEN "2.4" ELSE m

\* The codename of the package a table entry points at; noble has no 2.4 and
\* no 8.2 package and uses the jammy one (lines 58-65)
Codename(name, ver, m) ==
  IF ver = "11" THEN "bullseye"
  ELSE IF ver = "12" THEN "bookworm"
  ELSE IF ver = "20.04" THEN "focal"
  ELSE IF ver = "22.04" THEN "jammy"
  ELSE IF m \in {"5.6", "5.7", "8.2"} THEN "jammy"
  ELSE "noble"

\* Mutant of GetXtrabackupDownloadUrl: the distribution is not looked at.
DownloadUrlIgnoringDistro(m, name, ver) ==
  IF m \notin MapMySQL THEN None ELSE <<Base(m), "jammy">>

\* get_xtrabackup_download_url, lines 161-189
GetXtrabackupDownloadUrl(m, name, ver) ==
  IF name \notin DOMAIN VersionMap THEN None
  ELSE IF ver \notin VersionMap[name] THEN None
  ELSE IF m \notin MapMySQL THEN None
  ELSE <<Base(m), Codename(name, ver, m)>>

\* Mutant of GetRequiredXtrabackupVersion: 5.7 is paired with tool 8.0.
RequiredWith57On80(m) ==
  IF m = "5.6" THEN "2.4"
  ELSE IF m \in {"5.7", "8.0"} THEN "8.0"
  ELSE IF m \in {"8.2"} THEN "8.2"
  ELSE IF m = "8.4" THEN "8.4"
  ELSE NoneVersion

\* Mutant of GetRequiredXtrabackupVersion: an unknown database version is
\* paired with the newest tool.
RequiredDefaultsToNewest(m) ==
  IF m \in {"5.6", "5.7"} THEN "2.4"
  ELSE IF m \in {"8.0"} THEN "8.0"
  ELSE IF m \in {"8.2"} THEN "8.2"
  ELSE "8.4"

\* get_required_xtrabackup_version, lines 192-213
GetRequiredXtrabackupVersion(m) ==
  IF m \in {"5.6", "5.7"} THEN "2.4"
  ELSE IF m \in {"8.0"} THEN "8.0"
  ELSE IF m \in {"8.2"} THEN "8.2"
  ELSE IF m = "8.4" THEN "8.4"
  ELSE NoneVersion

\* A status message: the phrases its text contains and the download locator
\* written into it (None: no locator)
Message(phrases, locator) == [phrases |-> phrases, locator |-> locator]

\* validate_xtrabackup_version, lines 216-277
ValidateXtrabackupVersion(env) ==
  LET m == env.mysql_version
      xtrabackup_version == env.xtrabackup_version
      required_version == GetRequiredXtrabackupVersion(m)
      download_url == GetXtrabackupDownloadUrl(m, env.distro_name, env.distro_version)
  IN IF xtrabackup_version = NoneVersion
     THEN IF required_version # NoneVersion /\ download_url # None
          THEN [valid |-> FALSE,
                message |-> Message({"not found", "Download"}, download_url),
                download_url |-> download_url]
          ELSE [valid |-> FALSE, message |-> Message({"not found"}, None),
                download_url |-> None]
     ELSE IF required_version = NoneVersion
     THEN [valid |-> FALSE,
           message |-> Message({"unknown", "extend", "disable"}, None),
           download_url |-> None]
     ELSE IF xtrabackup_version = required_version
     THEN [valid |-> TRUE, message |-> Message({"compatible"}, None), download_url |-> None]
     ELSE IF env.distro_name = "unknown" \/ env.distro_version = "unknown"
     THEN [valid |-> FALSE,
           message |-> Message({"compatible", "not compatible", "Required version",
                               "unknown", "extend", "disable"}, None),
           download_url |-> None]
     ELSE IF download_url = None
     THEN [valid |-> FALSE,
           message |-> Message({"compatible", "not compatible", "Required version",
                               "not found", "extend", "disable"}, None),
           download_url |-> None]
     ELSE [valid |-> FALSE,
           message |-> Message({"compatible", "not compatible", "Required version",
                               "Download"}, download_url),
           download_url |-> download_url]

\* ---------------------------------------------------------------- ZabbixSender
\* max_bytes, line 52
max_bytes == 65536

\* Lengths are counted in characters, as len() does.  The truncation notice,
\* lines 53-56: its fixed text and the path of the log file
MessageLen(log_file) == 137 + log_file

\* The summary line, lines 57-64
SummaryLen(backup_result) ==
  IF backup_result.failed > 0 THEN 31
  ELSE IF backup_result.all_skipped_successfully THEN 75
  ELSE IF backup_result.all_skipped_faulty THEN 73
  ELSE 54

\* The length of a text of lines, each followed by a line break
RECURSIVE TextLen(_)
TextLen(lines) ==
  IF Len(lines) = 0 THEN 0 ELSE Head(lines) + 1 + TextLen(Tail(lines))

\* send_log_file, lines 75-79: the loop from line i on; a kept line is added
\* as " <line>\n"
RECURSIVE TruncateLoop(_, _, _, _)
TruncateLoop(log_lines, i, budget, truncated) ==
  IF i > Len(log_lines) THEN [len |-> truncated, kept |-> i - 1]
  ELSE IF truncated + log_lines[i] > budget THEN [len |-> truncated, kept |-> i - 1]
  ELSE TruncateLoop(log_lines, i + 1, budget, truncated + log_lines[i] + 2)

\* No value handed to send_value
\* No StoreManager on a backup root given by entry names
NoStore ==
  [phase |-> "none", root |-> <<>>, pre |-> <<>>, previous |-> <<>>, current |-> <<>>,
   listing |-> <<>>, removed |-> <<>>, again |-> <<>>]

NoSent == [called |-> FALSE, len |-> 0, kept |-> 0, notice |-> FALSE]

\* No call of send_log_file
NoZbx == [item_key |-> FALSE, log_file |-> 0, log |-> <<>>, backup_result |-> BackupResult(0, 0)]

\* send_log_file(backup_result), lines 47-81: the value handed to send_value,
\* as its length, the number of lines of summary and log in it and whether
\* the truncation notice is appended
SendLogFile(z) ==
  LET log_lines == <<SummaryLen(z.backup_result)>> \o z.log
      file_content == SummaryLen(z.backup_result) + 1 + TextLen(z.log)
      budget == max_bytes - MessageLen(z.log_file)
      truncated == TruncateLoop(log_lines, 1, budget, 0)
  IN IF ~z.item_key THEN NoSent
     ELSE IF file_content < max_bytes
     THEN [called |-> TRUE, len |-> file_content, kept |-> Len(log_lines), notice |-> FALSE]
     ELSE [called |-> TRUE, len |-> truncated.len + MessageLen(z.log_file),
           kept |-> truncated.kept, notice |-> TRUE]

\* One invoked strategy step: whether its subprocess ran, what the subprocess
\* returned (exit code, marker in stdout, marker in stderr, size of the output
\* file or -1 when it is missing), and what the step returned.
Step(name, ran, rc, out, err, size, ok) ==
  [name |-> name, ran |-> ran, rc |-> rc, out |-> out, err |-> err,
   size |-> size, ok |-> ok]

\* A step that returned False without a finished subprocess (a missing
\* directory, or an exception from subprocess.run or open)
NotRun(name) == Step(name, FALSE, -1, FALSE, FALSE, -1, FALSE)

NoStep == Step("none", FALSE, -1, FALSE, FALSE, -1, FALSE)

\* ---------------------------------------------------------------- main
NoStrategy == [streamcompress |-> FALSE, prepare |-> FALSE, tgz |-> FALSE]
NoPre == [gens |-> [d \in Gens |-> Absent], last |-> 0, lastLog |-> 0]

NoVersionEnv ==
  [mysql_version |-> "", xtrabackup_version |-> "", distro_name |-> "", distro_version |-> ""]
NoValidation == [valid |-> FALSE, message |-> Message({}, None), download_url |-> None]

\* main, lines 239-271: whether querying the versions raised, the
\* check_xtrabackup_version setting, whether validate_xtrabackup_version was
\* called, what it returned as first element, and whether a warning was logged
NoVersionCheck ==
  [done |-> FALSE, raised |-> FALSE, check_xtrabackup_version |-> FALSE,
   validated |-> FALSE, version_valid |-> FALSE, warned |-> FALSE]

\* None of the functions exercised on their own has been called, and the
\* working directory holds none of the files they look for.
ApiIdle ==
  /\ versionEnv = NoVersionEnv
  /\ validation = NoValidation
  /\ zbx = NoZbx
  /\ sent = NoSent
  /\ store = NoStore
  /\ cwdInfo = NoInfo
  /\ infoRead = NoInfo
  /\ cwdStamp = [i \in Items |-> NoFile]
  /\ written = [i \in Items |-> [gen |-> 0, value |-> NoTime]]
  /\ timeRead = [i \in Items |-> NoTime]

Init ==
  /\ ApiIdle
  /\ versionCheck = NoVersionCheck
  /\ cond = NoCond
  /\ versions \in 1..MaxVersions
  /\ delete_before \in BOOLEAN
  /\ strategy = NoStrategy
  /\ gens = [d \in Gens |-> Absent]
  /\ last = 0
  /\ lastLog = 0
  /\ now = 0
  /\ runs = 0
  /\ pc = "idle"
  /\ current = 0
  /\ previous = 0
  /\ bytesFree = 0
  /\ freeNow = 0
  /\ srcBytes = -1
  /\ success = FALSE
  /\ result = BackupResult(0, 0)
  /\ exitPlan = "none"
  /\ exitCode = -1
  /\ step = NoStep
  /\ toolRuns = 0
  /\ removed = <<>>
  /\ pre = NoPre
  /\ preCleanup = {}
  /\ cleanupArg = -1
  /\ ratioUsed = NoRatio
  /\ caught = "none"
  /\ invoked = <<>>

\* main, lines 188-234: read the configuration, construct the StoreManager
\* (previous generation, new generation directory of this second, free bytes
\* of the partition) and open the log file in it.
StartRun ==
  /\ pc = "idle"
  /\ runs < MaxRuns
  /\ \E t \in Gens, free \in FreeSizes, s \in Strategies :
       /\ t \in {now, now + 1}
       /\ strategy' = s
       /\ pre' = [gens |-> gens, last |-> last, lastLog |-> lastLog]
       /\ previous' = PreviousDir(gens)
       /\ gens' = MakeCurrent(gens, t)
       /\ current' = t
       /\ now' = t
       /\ bytesFree' = free
       /\ freeNow' = free
  /\ runs' = runs + 1
  /\ pc' = "versions"
  /\ UNCHANGED <<versions, delete_before, apiVars, versionCheck, cond, last, lastLog, srcBytes,
                 success, result,
                 exitPlan, exitCode, step, invoked, toolRuns, removed, preCleanup, cleanupArg, ratioUsed, caught>>

\* Mutant of EndsRun: a failed check ends the run whatever the setting.
EndsRunOnAnyFailure(raised, check_xtrabackup_version, validated, version_valid) ==
  raised \/ (validated /\ ~version_valid)

\* main, lines 251-258 and 269-271: sys.exit(1) on an error while querying
\* the versions and on a failed check under check_xtrabackup_version
EndsRun(raised, check_xtrabackup_version, validated, version_valid) ==
  raised \/ (check_xtrabackup_version /\ validated /\ ~version_valid)

\* main, lines 239-274: query the versions; validate_xtrabackup_version is
\* called under check_xtrabackup_version, and without it when the tool
\* version is known, where a failed check is only logged as a warning.
VersionCheck ==
  /\ pc = "versions"
  /\ \E raises \in BOOLEAN, check_xtrabackup_version \in BOOLEAN, env \in RunEnvs :
       LET validated == ~raises /\ (check_xtrabackup_version
                                     \/ env.xtrabackup_version # NoneVersion)
           version_valid == validated /\ ValidateXtrabackupVersion(env).valid
       IN /\ versionCheck' =
               [done |-> TRUE, raised |-> raises,
                check_xtrabackup_version |-> check_xtrabackup_version,
                validated |-> validated, version_valid |-> version_valid,
                warned |-> validated /\ ~check_xtrabackup_version /\ ~version_valid]
          /\ IF EndsRun(raises, check_xtrabackup_version, validated, version_valid)
             THEN /\ pc' = "exit"
                  /\ exitPlan' = "version"
                  /\ exitCode' = 1
             ELSE /\ pc' = "skip"
                  /\ UNCHANGED <<exitPlan, exitCode>>
  /\ result' = BackupResult(0, 0)
  /\ UNCHANGED <<cfgVars, apiVars, cond, fsVars, smVars, srcBytes, success, step, invoked, toolRuns,
                 removed, pre, preCleanup, cleanupArg, ratioUsed, caught>>

\* Mutant of AfterSkipCheck: without a match main goes straight on to pruning.
AfterSkipCheckPrunesFirst(matched) == IF matched THEN "report" ELSE "cleanup_before"

\* main, lines 282-290: a matched skip condition leads to the report and the
\* exit, anything else to the run conditions
AfterSkipCheck(matched) == IF matched THEN "report" ELSE "run"

\* main, lines 282-288; the locals of the version check are dead from here on
CheckSkip ==
  /\ pc = "skip"
  /\ \E codes \in CmdCodes :
       IF CheckSkipConditions(codes).ret
       THEN /\ result' = [result EXCEPT !.all_skipped_successfully = TRUE]
            /\ exitPlan' = "skip"
            /\ pc' = AfterSkipCheck(TRUE)
       ELSE /\ pc' = AfterSkipCheck(FALSE)
            /\ UNCHANGED <<result, exitPlan>>
  /\ versionCheck' = NoVersionCheck
  /\ UNCHANGED <<cfgVars, apiVars, cond, fsVars, smVars, srcBytes, success, exitCode, step, invoked, toolRuns,
                 removed, pre, preCleanup, cleanupArg, ratioUsed, caught>>

\* main, lines 290-296
CheckRun ==
  /\ pc = "run"
  /\ \E codes \in CmdCodes :
       IF ~CheckRunConditions(codes).ret
       THEN /\ result' = [result EXCEPT !.all_skipped_faulty = TRUE]
            /\ exitPlan' = "runfail"
            /\ pc' = "report"
       ELSE /\ pc' = "cleanup_before"
            /\ UNCHANGED <<result, exitPlan>>
  /\ UNCHANGED <<cfgVars, apiVars, versionCheck, cond, fsVars, smVars, srcBytes, success, exitCode, step, invoked, toolRuns,
                 removed, pre, preCleanup, cleanupArg, ratioUsed, caught>>

\* Mutant of AfterReport: an early exit goes on to the terminate conditions.
AfterReportRunsTerminate(plan) == IF plan = "none" THEN "exit" ELSE "terminate"

\* main, lines 286-287, 294-295, 307-308 and 324: what follows send_log_file:
\* remove_skipped on the early exits, the end of main otherwise
AfterReport(plan) == IF plan = "none" THEN "exit" ELSE "remove"

\* zabbix_sender.send_log_file(backup_result), lines 286, 294, 307 and 324.
\* After the final report main returns, which ends the process with status 0.
Report ==
  /\ pc = "report"
  /\ pc' = AfterReport(exitPlan)
  /\ exitCode' = IF exitPlan = "none" THEN 0 ELSE exitCode
  /\ cond' = NoCond
  /\ UNCHANGED <<cfgVars, apiVars, versionCheck, fsVars, smVars, srcBytes, success, result, exitPlan, step, invoked,
                 toolRuns, removed, pre, preCleanup, cleanupArg, ratioUsed, caught>>

\* Mutant of AfterRemoveSkipped: <root>/last is removed as well.
AfterRemoveSkippedDropsLast(g, l, ll, c) ==
  [gens |-> [g EXCEPT ![c] = Absent], last |-> 0, lastLog |-> -1]

\* remove_skipped, lines 96-98: os.rename puts the log file at <root>/last.log
\* (a regular file, in place of whatever file or symlink was there), then
\* shutil.rmtree removes the generation directory.
AfterRemoveSkipped(g, l, ll, c) ==
  [gens |-> [g EXCEPT ![c] = Absent], last |-> l, lastLog |-> -1]

\* Mutant of SysExit: every early exit ends with status 0.
SysExitZero(plan) == 0

\* sys.exit(0) after a skip (line 288), sys.exit(1) after a failed run
\* condition (line 296) and after NotEnoughDiskSpaceError (line 309)
SysExit(plan) == IF plan = "skip" THEN 0 ELSE 1

\* Mutant of RenameRaises: the move of the log file always goes through.
RenameNeverRaises(g, ll, c) == FALSE

\* remove_skipped, lines 96-97: os.rename(<current>/opa.log, <root>/last.log)
\* raises when the source is missing (the directory or the log file in it is
\* gone) and when the destination is a directory
RenameRaises(g, ll, c) == ~g[c].exists \/ ~g[c].log \/ ll = -2

\* store_manager.remove_skipped() and sys.exit, lines 287-288, 295-296, 308-309.
\* os.rename raises when the log file is gone or <root>/last.log is a
\* directory; the exception is not caught and the interpreter ends with
\* status 1 without removing the directory.
RemoveSkipped ==
  /\ pc = "remove"
  /\ IF ~RenameRaises(gens, lastLog, current)
     THEN /\ gens' = AfterRemoveSkipped(gens, last, lastLog, current).gens
          /\ last' = AfterRemoveSkipped(gens, last, lastLog, current).last
          /\ lastLog' = AfterRemoveSkipped(gens, last, lastLog, current).lastLog
          /\ exitCode' = SysExit(exitPlan)
     ELSE /\ exitCode' = 1
          /\ UNCHANGED <<gens, last, lastLog>>
  /\ pc' = "exit"
  /\ UNCHANGED <<cfgVars, apiVars, versionCheck, cond, smVars, srcBytes, success, result, exitPlan, step, invoked,
                 toolRuns, removed, pre, preCleanup, cleanupArg, ratioUsed, caught>>

\* main, line 299: store_manager.cleanup_before(config.versions) if delete_before
CleanupBefore ==
  /\ pc = "cleanup_before"
  /\ IF delete_before
     THEN /\ preCleanup' = Dirs
          /\ cleanupArg' = CleanupBeforeTarget(versions)
          /\ removed' = RemovedBy(gens, CleanupBeforeTarget(versions))
          /\ gens' = AfterCleanup(gens, CleanupBeforeTarget(versions))
          /\ freeNow' = freeNow + FreedBy(gens, RemovedBy(gens, CleanupBeforeTarget(versions)))
     ELSE UNCHANGED <<preCleanup, cleanupArg, removed, gens, freeNow>>
  /\ pc' = "construct"
  /\ UNCHANGED <<cfgVars, apiVars, versionCheck, cond, last, lastLog, now, runs, current, previous,
                 bytesFree, srcBytes, success, result, exitPlan,
                 exitCode, step, invoked, toolRuns, pre, ratioUsed, caught>>

\* main, lines 301-302 and 310-311: XtraBackup(config, store_manager, logger)
\* queries mysql for the data directory and measures it; an exception is
\* logged and main goes on with the default BackupResult.
Construct ==
  /\ pc = "construct"
  /\ \/ /\ srcBytes' \in SrcSizes
        /\ pc' = "preflight"
        /\ caught' = caught
     \/ /\ srcBytes' = srcBytes
        /\ pc' = "cleanup_after"
        /\ caught' = "XtraBackup"
  /\ UNCHANGED <<cfgVars, apiVars, versionCheck, cond, fsVars, smVars, success, result, exitPlan, exitCode, step, invoked,
                 toolRuns, removed, pre, preCleanup, cleanupArg, ratioUsed>>

\* ---------------------------------------------------------------- XtraBackup
\* _check_free_space, lines 83-89: required_free_bytes, times 10.  The factors
\* 0.3, 1.2 and 1.5 are floats; for byte counts below 2^50 the rounded product
\* compares with an integer as the exact product does, so the comparison is
\* modelled on 10 * required.
Required10(s, S) ==
  IF s.streamcompress THEN 3 * S
  ELSE IF s.tgz THEN 15 * S
  ELSE 12 * S

\* Mutant of CheckFreeSpace: the comparison is not strict.
CheckFreeSpaceNonStrict(s, S, free) ==
  IF Required10(s, S) >= 10 * free THEN "raise" ELSE "true"

\* Mutant of CheckFreeSpace: too little space is reported by returning False.
CheckFreeSpaceReturnsFalse(s, S, free) ==
  IF Required10(s, S) > 10 * free THEN "false" ELSE "true"

\* _check_free_space, lines 96-98: raises NotEnoughDiskSpaceError or returns True
CheckFreeSpace(s, S, free) ==
  IF Required10(s, S) > 10 * free THEN "raise" ELSE "true"

\* _check_free_space, lines 78-98: the compression ratio it reads (NoRatio: it
\* calls neither get_backup_info nor anything else that reads info.json)
RatioRead == NoRatio

\* Mutant of FreeFigure: the partition is asked again at the preflight.
FreeFigureRefreshed(captured, at_preflight) == at_preflight

\* _check_free_space, lines 94 and 96: store_manager.current_dir.bytes_free,
\* the DirInfo that __init__ stored in line 50
FreeFigure(captured, at_preflight) == captured

\* execute, lines 50-52, and main, lines 304-309: the preflight.  The error
\* propagates out of execute(); main marks the result and leaves by the
\* report / remove_skipped / exit(1) path.
Preflight ==
  /\ pc = "preflight"
  /\ ratioUsed' = RatioRead
  /\ LET outcome == CheckFreeSpace(strategy, srcBytes, FreeFigure(bytesFree, freeNow))
     IN IF outcome = "raise"
        THEN /\ result' = [result EXCEPT !.all_skipped_faulty = TRUE]
             /\ exitPlan' = "nospace"
             /\ pc' = "report"
             /\ freeNow' = freeNow
        ELSE IF outcome = "true"
        THEN /\ pc' = IF strategy.streamcompress THEN "stream" ELSE "regular"
             /\ freeNow' = 0
             /\ UNCHANGED <<result, exitPlan>>
        ELSE /\ result' = BackupResult(0, 1)
             /\ pc' = "cleanup_after"
             /\ freeNow' = 0
             /\ UNCHANGED exitPlan
  /\ UNCHANGED <<cfgVars, apiVars, versionCheck, cond, fsVars, now, runs, current, previous, bytesFree,
                 srcBytes, success, exitCode, step, invoked, toolRuns,
                 removed, pre, preCleanup, cleanupArg, caught>>

\* "completed OK!" in result.stdout or "completed OK!" in result.stderr
MarkerSeen(out, err) == out \/ err

\* Mutant of MarkerSuccess: the completion marker is not looked for.
ExitCodeOnly(rc, out, err) == rc = 0

\* _execute_regular, lines 125-136, and _execute_prepare, lines 167-177
MarkerSuccess(rc, out, err) ==
  IF rc # 0 THEN FALSE
  ELSE IF MarkerSeen(out, err) THEN TRUE
  ELSE FALSE

\* Mutant of StreamSuccess: the output file is not looked at.
StreamExitCodeOnly(rc, size) == rc = 0

\* _execute_streamcompress, lines 213-225; size -1: backup.xbstream is missing
StreamSuccess(rc, size) ==
  IF rc # 0 THEN FALSE
  ELSE IF size # -1 /\ size > 0 THEN TRUE
  ELSE FALSE

\* _compress_to_tgz, lines 264-277; size -1: backup.tar.gz is missing
TgzSuccess(rc, size) ==
  IF rc # 0 THEN FALSE
  ELSE IF size # -1 /\ size > 0 THEN TRUE
  ELSE FALSE

\* Mutant of AfterStep: the outcome of the step is not looked at.
AfterStepIgnoringFailure(name, ok) ==
  IF name = "regular" /\ strategy.prepare THEN "prepare"
  ELSE IF name \in {"regular", "prepare"} /\ strategy.tgz THEN "tgz"
  ELSE IF ok THEN "store" ELSE "failed"

\* execute, lines 56-72: where execute() goes after a step returned
AfterStep(name, ok) ==
  IF ~ok THEN "failed"
  ELSE IF name = "regular" /\ strategy.prepare THEN "prepare"
  ELSE IF name \in {"regular", "prepare"} /\ strategy.tgz THEN "tgz"
  ELSE "store"

\* execute, lines 56-72: a step returned; a failed step ends execute() with
\* BackupResult(failed=1)
StepDone(rec) ==
  /\ step' = rec
  /\ invoked' = Append(invoked, [name |-> rec.name, ok |-> rec.ok])
  /\ toolRuns' = IF rec.ran THEN toolRuns + 1 ELSE toolRuns
  /\ success' = rec.ok
  /\ IF AfterStep(rec.name, rec.ok) = "failed"
     THEN pc' = "cleanup_after" /\ result' = BackupResult(0, 1)
     ELSE pc' = AfterStep(rec.name, rec.ok) /\ result' = result

\* The backup tool creating <current>/backup (and, when the generation
\* directory is gone, its parents)
WithBackupDir(g, c) ==
  [g EXCEPT ![c] = [(IF g[c].exists THEN g[c] ELSE EmptyDir) EXCEPT !.backup = TRUE]]

\* _execute_regular, lines 100-140: xtrabackup --backup --target-dir=<current>/backup
ExecuteRegular ==
  /\ pc = "regular"
  /\ \/ \E rc \in {0, 1}, out \in BOOLEAN, err \in BOOLEAN, mk \in BOOLEAN :
          /\ StepDone(Step("regular", TRUE, rc, out, err, -1, MarkerSuccess(rc, out, err)))
          /\ gens' = IF mk THEN WithBackupDir(gens, current) ELSE gens
     \/ /\ StepDone(NotRun("regular"))
        /\ gens' = gens
  /\ UNCHANGED <<cfgVars, apiVars, versionCheck, cond, last, lastLog, smVars, srcBytes, exitPlan, exitCode,
                 removed, pre, preCleanup, cleanupArg, ratioUsed, caught>>

\* _execute_prepare, lines 142-181: returns False without a subprocess when
\* <current>/backup does not exist
ExecutePrepare ==
  /\ pc = "prepare"
  /\ IF gens[current].exists /\ gens[current].backup
     THEN \/ \E rc \in {0, 1}, out \in BOOLEAN, err \in BOOLEAN :
               StepDone(Step("prepare", TRUE, rc, out, err, -1, MarkerSuccess(rc, out, err)))
          \/ StepDone(NotRun("prepare"))
     ELSE StepDone(NotRun("prepare"))
  /\ UNCHANGED <<cfgVars, apiVars, versionCheck, cond, fsVars, smVars, srcBytes, exitPlan, exitCode,
                 removed, pre, preCleanup, cleanupArg, ratioUsed, caught>>

\* _execute_streamcompress, lines 183-229: open(backup.xbstream, 'wb') raises
\* when the generation directory is gone; otherwise the tool writes its
\* standard output to the file and the step looks at exit code and file size.
ExecuteStreamcompress ==
  /\ pc = "stream"
  /\ IF gens[current].exists
     THEN \/ \E rc \in {0, 1}, err \in BOOLEAN, size \in {-1, 0, 1} :
               StepDone(Step("streamcompress", TRUE, rc, FALSE, err, size,
                             StreamSuccess(rc, size)))
          \/ StepDone(NotRun("streamcompress"))
     ELSE StepDone(NotRun("streamcompress"))
  /\ UNCHANGED <<cfgVars, apiVars, versionCheck, cond, fsVars, smVars, srcBytes, exitPlan, exitCode,
                 removed, pre, preCleanup, cleanupArg, ratioUsed, caught>>

\* _compress_to_tgz, lines 231-281: on success the uncompressed backup
\* directory is removed
CompressToTgz ==
  /\ pc = "tgz"
  /\ IF gens[current].exists /\ gens[current].backup
     THEN \/ \E rc \in {0, 1}, size \in {-1, 0, 1} :
               /\ StepDone(Step("tgz", TRUE, rc, FALSE, FALSE, size, TgzSuccess(rc, size)))
               /\ gens' = IF TgzSuccess(rc, size)
                          THEN [gens EXCEPT ![current].backup = FALSE]
                          ELSE gens
          \/ /\ StepDone(NotRun("tgz"))
             /\ gens' = gens
     ELSE /\ StepDone(NotRun("tgz"))
          /\ gens' = gens
  /\ UNCHANGED <<cfgVars, apiVars, versionCheck, cond, last, lastLog, smVars, srcBytes, exitPlan, exitCode,
                 removed, pre, preCleanup, cleanupArg, ratioUsed, caught>>

\* Mutant of Raised: the exception leaves execute(); main logs it (lines
\* 310-311) and keeps the BackupResult it had.
RaisedUncaught(call) == [result |-> result, caught |-> call]

\* execute, lines 74-76: an exception of a call inside the try block is logged
\* and turned into BackupResult(failed=1, total=1)
Raised(call) == [result |-> BackupResult(0, 1), caught |-> call]

\* store_backup_info, lines 64-65: compression_ratio as a fraction <<num, den>>
Ratio(backup_bytes_used, mysql_data_dir_bytes_used) ==
  IF mysql_data_dir_bytes_used # 0
  THEN <<backup_bytes_used, mysql_data_dir_bytes_used>>
  ELSE <<0, 1>>

\* store_backup_info, lines 60-73: the record written to info.json
BackupInfo(mysql_data_dir_bytes_used, backup_bytes_used) ==
  [present |-> TRUE, mysql_data_dir_bytes_used |-> mysql_data_dir_bytes_used,
   backup_bytes_used |-> backup_bytes_used,
   compression_ratio |-> Ratio(backup_bytes_used, mysql_data_dir_bytes_used)]

\* get_backup_info, lines 100-108: the file <previous_dir.path>/info.json, or
\* BackupInfo(0, 0, 0.5) when open() raises FileNotFoundError.  Without a
\* previous generation previous_dir.path is "" (line 44) and the path joined
\* from it is the relative path info.json, looked up in the working
\* directory.  json keeps integers and floats exactly, so what is read is
\* what was written.
GetBackupInfo(g, prev, cwd) ==
  LET file == IF prev = 0 THEN cwd
              ELSE IF g[prev].exists THEN g[prev].info
              ELSE NoInfo
  IN IF file.present
     THEN file
     ELSE [present |-> FALSE, mysql_data_dir_bytes_used |-> 0, backup_bytes_used |-> 0,
           compression_ratio |-> <<1, 2>>]

\* execute, lines 65-67 and 74-76: store_backup_info(data_dir.bytes_used).
\* get_dir_info raises when the generation directory is gone or du fails;
\* execute() catches it and returns BackupResult(failed=1).  The call also
\* refreshes current_dir.bytes_free, which nothing reads afterwards.
StoreBackupInfo ==
  /\ pc = "store"
  /\ \/ /\ gens[current].exists
        /\ \E bak \in BakSizes :
             gens' = [gens EXCEPT ![current].info = BackupInfo(srcBytes, bak)]
        /\ pc' = "link"
        /\ result' = result
        /\ caught' = caught
     \/ /\ gens' = gens
        /\ pc' = "cleanup_after"
        /\ result' = Raised("store_backup_info").result
        /\ caught' = Raised("store_backup_info").caught
  /\ UNCHANGED <<cfgVars, apiVars, versionCheck, cond, last, lastLog, smVars, srcBytes, success, exitPlan, exitCode,
                 step, invoked, toolRuns, removed, pre, preCleanup, cleanupArg, ratioUsed>>

\* Mutant of LinkTargets: the pointers are set to the previous generation.
LinkTargetsPrevious(c) == [last |-> previous, lastLog |-> previous]

\* link_to_last_dir, lines 75-89: what <root>/last and <root>/last.log are
\* after the call
LinkTargets(c) == [last |-> c, lastLog |-> c]

\* link_to_last_dir, lines 87-88: whatever is at <root>/last.log is removed with
\* os.unlink, which raises on a directory.  (<root>/last is removed by
\* unlink, rmtree or remove according to its kind, lines 79-84.)
LinkRaises(ll) == ll = -2

\* execute, lines 68-69 and 74-76: link_to_last_dir(), then
\* BackupResult(successful=1).  When the removal of <root>/last.log raises,
\* <root>/last has already been repointed (line 85).
LinkToLastDir ==
  /\ pc = "link"
  /\ IF LinkRaises(lastLog)
     THEN /\ last' = LinkTargets(current).last
          /\ lastLog' = lastLog
          /\ result' = Raised("link_to_last_dir").result
          /\ caught' = Raised("link_to_last_dir").caught
     ELSE /\ last' = LinkTargets(current).last
          /\ lastLog' = LinkTargets(current).lastLog
          /\ result' = BackupResult(1, 0)
          /\ caught' = caught
  /\ pc' = "cleanup_after"
  /\ UNCHANGED <<cfgVars, apiVars, versionCheck, cond, gens, smVars, srcBytes, success, exitPlan, exitCode,
                 step, invoked, toolRuns, removed, pre, preCleanup, cleanupArg, ratioUsed>>

\* main, lines 313-316: cleanup_after(config.versions) unless delete_before
CleanupAfter ==
  /\ pc = "cleanup_after"
  /\ IF ~delete_before
     THEN /\ preCleanup' = Dirs
          /\ cleanupArg' = CleanupAfterTarget(versions)
          /\ removed' = RemovedBy(gens, CleanupAfterTarget(versions))
          /\ gens' = AfterCleanup(gens, CleanupAfterTarget(versions))
     ELSE UNCHANGED <<preCleanup, cleanupArg, removed, gens>>
  /\ pc' = "terminate"
  /\ UNCHANGED <<cfgVars, apiVars, versionCheck, cond, last, lastLog, smVars, srcBytes, success, result, exitPlan,
                 exitCode, step, invoked, toolRuns, pre, ratioUsed, caught>>

\* main, lines 318-321: execute_terminate_conditions(store_manager.current_dir.path);
\* a false return is only logged
Terminate ==
  /\ pc = "terminate"
  /\ \E codes \in TerminateCodes :
       cond' = CondCall("execute_terminate_conditions", codes, current,
                        ExecuteTerminateConditions(codes, current))
  /\ pc' = "report"
  /\ UNCHANGED <<cfgVars, apiVars, versionCheck, fsVars, smVars, srcBytes, success, result, exitPlan,
                 exitCode, step, invoked, toolRuns, removed, pre, preCleanup, cleanupArg, ratioUsed, caught>>

\* The process has ended; the next invocation starts from a fresh interpreter.
EndRun ==
  /\ pc = "exit"
  /\ runs < MaxRuns
  /\ pc' = "idle"
  /\ strategy' = NoStrategy
  /\ current' = 0
  /\ previous' = 0
  /\ bytesFree' = 0
  /\ freeNow' = 0
  /\ srcBytes' = -1
  /\ success' = FALSE
  /\ result' = BackupResult(0, 0)
  /\ exitPlan' = "none"
  /\ exitCode' = -1
  /\ step' = NoStep
  /\ toolRuns' = 0
  /\ removed' = <<>>
  /\ pre' = NoPre
  /\ preCleanup' = {}
  /\ cleanupArg' = -1
  /\ ratioUsed' = NoRatio
  /\ caught' = "none"
  /\ invoked' = <<>>
  /\ infoRead' = NoInfo
  /\ timeRead' = [i \in Items |-> NoTime]
  /\ versionCheck' = NoVersionCheck
  /\ cond' = NoCond
  /\ UNCHANGED <<versions, delete_before, cwdInfo, cwdStamp, written, versionEnv, zbx, sent, store,
                 validation, fsVars, now, runs>>

Next ==
  \/ StartRun
  \/ VersionCheck
  \/ CheckSkip
  \/ CheckRun
  \/ Report
  \/ RemoveSkipped
  \/ CleanupBefore
  \/ Construct
  \/ Preflight
  \/ ExecuteRegular
  \/ ExecutePrepare
  \/ ExecuteStreamcompress
  \/ CompressToTgz
  \/ StoreBackupInfo
  \/ LinkToLastDir
  \/ CleanupAfter
  \/ Terminate
  \/ EndRun

Spec == Init /\ [][Next]_vars

\* ---------------------------------------------------------------- preflight alone
\* The preflight of one run over a range of data directory sizes and
\* free-space figures.
InitPreflight ==
  /\ ApiIdle
  /\ versionCheck = NoVersionCheck
  /\ cond = NoCond
  /\ versions = 1
  /\ delete_before = FALSE
  /\ strategy \in Strategies
  /\ gens = [d \in Gens |-> IF d = 1 THEN [EmptyDir EXCEPT !.log = TRUE] ELSE Absent]
  /\ last = 0
  /\ lastLog = 0
  /\ now = 1
  /\ runs = 1
  /\ pc = "preflight"
  /\ current = 1
  /\ previous = 0
  /\ bytesFree \in 0..MaxFree
  /\ freeNow = bytesFree
  /\ srcBytes \in 0..MaxSrc
  /\ success = FALSE
  /\ result = BackupResult(0, 0)
  /\ exitPlan = "none"
  /\ exitCode = -1
  /\ step = NoStep
  /\ toolRuns = 0
  /\ removed = <<>>
  /\ pre = NoPre
  /\ preCleanup = {}
  /\ cleanupArg = -1
  /\ ratioUsed = NoRatio
  /\ caught = "none"
  /\ invoked = <<>>

NextPreflight == Preflight

SpecPreflight == InitPreflight /\ [][NextPreflight]_vars

\* ---------------------------------------------------------------- execute alone
\* execute() from the point where the preflight has passed, in generation 2
\* of a backup root whose <root>/last and <root>/last.log are of any kind and
\* whose generation 1 may exist.
PointerKinds == {-2, -1, 0} \cup Gens

InitExecute ==
  /\ ApiIdle
  /\ versionCheck = NoVersionCheck
  /\ cond = NoCond
  /\ versions = 1
  /\ delete_before = FALSE
  /\ strategy \in Strategies
  /\ \E older \in {Absent, [EmptyDir EXCEPT !.log = TRUE]} :
       gens = [d \in Gens |-> IF d = 2 THEN [EmptyDir EXCEPT !.log = TRUE]
                              ELSE IF d = 1 THEN older ELSE Absent]
  /\ last \in PointerKinds
  /\ lastLog \in PointerKinds
  /\ now = 2
  /\ runs = 1
  /\ pc = IF strategy.streamcompress THEN "stream" ELSE "regular"
  /\ current = 2
  /\ previous = PreviousDir([gens EXCEPT ![2] = Absent])
  /\ bytesFree \in FreeSizes
  /\ freeNow = 0
  /\ srcBytes \in SrcSizes
  /\ CheckFreeSpace(strategy, srcBytes, bytesFree) = "true"
  /\ success = FALSE
  /\ result = BackupResult(0, 0)
  /\ exitPlan = "none"
  /\ exitCode = -1
  /\ step = NoStep
  /\ toolRuns = 0
  /\ removed = <<>>
  /\ pre = [gens |-> [gens EXCEPT ![2] = Absent], last |-> last, lastLog |-> lastLog]
  /\ preCleanup = {}
  /\ cleanupArg = -1
  /\ ratioUsed = NoRatio
  /\ caught = "none"
  /\ invoked = <<>>

NextExecute ==
  \/ ExecuteRegular
  \/ ExecutePrepare
  \/ ExecuteStreamcompress
  \/ CompressToTgz
  \/ StoreBackupInfo
  \/ LinkToLastDir

SpecExecute == InitExecute /\ [][NextExecute]_vars

\* ---------------------------------------------------------------- metadata
\* store_backup_info in one run and get_backup_info after the construction of
\* the next.  The first run is either an execute() in generation 1 of a fresh
\* backup root or a skipped run, which leaves nothing but <root>/last.log.
CwdInfos == {NoInfo, BackupInfo(7, 7)}

InitInfo ==
  /\ versionEnv = NoVersionEnv
  /\ validation = NoValidation
  /\ zbx = NoZbx
  /\ sent = NoSent
  /\ store = NoStore
  /\ versionCheck = NoVersionCheck
  /\ cond = NoCond
  /\ cwdInfo \in CwdInfos
  /\ infoRead = NoInfo
  /\ cwdStamp = [i \in Items |-> NoFile]
  /\ written = [i \in Items |-> [gen |-> 0, value |-> NoTime]]
  /\ timeRead = [i \in Items |-> NoTime]
  /\ versions \in 1..MaxVersions
  /\ delete_before = FALSE
  /\ last = 0
  /\ now = 1
  /\ runs = 1
  /\ previous = 0
  /\ success = FALSE
  /\ result = BackupResult(0, 0)
  /\ exitPlan = "none"
  /\ exitCode = -1
  /\ step = NoStep
  /\ toolRuns = 0
  /\ removed = <<>>
  /\ pre = NoPre
  /\ preCleanup = {}
  /\ cleanupArg = -1
  /\ ratioUsed = NoRatio
  /\ caught = "none"
  /\ invoked = <<>>
  /\ \/ /\ strategy \in Strategies
        /\ pc = IF strategy.streamcompress THEN "stream" ELSE "regular"
        /\ gens = [d \in Gens |-> IF d = 1 THEN [EmptyDir EXCEPT !.log = TRUE] ELSE Absent]
        /\ lastLog = 0
        /\ current = 1
        /\ bytesFree \in FreeSizes
        /\ freeNow = 0
        /\ srcBytes \in SrcSizes
        /\ CheckFreeSpace(strategy, srcBytes, bytesFree) = "true"
     \/ /\ strategy = NoStrategy
        /\ pc = "idle"
        /\ gens = [d \in Gens |-> Absent]
        /\ lastLog = -1
        /\ current = 0
        /\ bytesFree = 0
        /\ freeNow = 0
        /\ srcBytes = -1

\* get_backup_info() called on the StoreManager of a run, right after its
\* construction
ReadBackupInfo ==
  /\ pc = "versions"
  /\ infoRead = NoInfo
  /\ infoRead' = GetBackupInfo(gens, previous, cwdInfo)
  /\ UNCHANGED <<cfgVars, fsVars, smVars, cwdInfo, cwdStamp, written, timeRead, versionEnv, zbx, sent, store,
                 validation, versionCheck, cond, pc,
                 srcBytes, success, result,
                 exitPlan, exitCode, step, invoked, toolRuns, removed, pre, preCleanup,
                 cleanupArg, ratioUsed, caught>>

NextInfo ==
  \/ ExecuteRegular
  \/ ExecutePrepare
  \/ ExecuteStreamcompress
  \/ CompressToTgz
  \/ StoreBackupInfo
  \/ LinkToLastDir
  \/ CleanupAfter
  \/ Terminate
  \/ Report
  \/ EndRun
  \/ StartRun
  \/ ReadBackupInfo

SpecInfo == InitInfo /\ [][NextInfo]_vars

\* ---------------------------------------------------------------- timestamps
\* StoreManager used on its own: a sequence of constructions on one backup
\* root, each followed by calls of store_database_backup_time and
\* get_database_backup_time.
Micros == {0, 5}

\* datetime.isoformat(): the fraction is left out when the microsecond is 0
IsoFormat(t) == IF t[2] = 0 THEN <<t[1]>> ELSE <<t[1], t[2]>>

\* datetime.fromisoformat(): a text without fraction has microsecond 0
FromIsoFormat(x) == IF Len(x) = 1 THEN <<x[1], 0>> ELSE <<x[1], x[2]>>

\* get_database_backup_time, lines 110-116: <previous_dir.path>/<item>.timestamp
\* parsed, or datetime(1900, 1, 1) on FileNotFoundError.  Without a previous
\* generation previous_dir.path is "" and the file is looked up in the
\* working directory.
GetDatabaseBackupTime(g, prev, cwd, item) ==
  LET file == IF prev = 0 THEN cwd[item]
              ELSE IF g[prev].exists THEN g[prev].stamps[item]
              ELSE NoFile
  IN IF file = NoFile THEN Sentinel ELSE FromIsoFormat(file)

CwdStamps == [Items -> {NoFile, IsoFormat(<<1, 5>>)}]

InitTimestamp ==
  /\ versionEnv = NoVersionEnv
  /\ validation = NoValidation
  /\ zbx = NoZbx
  /\ sent = NoSent
  /\ store = NoStore
  /\ versionCheck = NoVersionCheck
  /\ cond = NoCond
  /\ cwdInfo = NoInfo
  /\ infoRead = NoInfo
  /\ cwdStamp \in CwdStamps
  /\ written = [i \in Items |-> [gen |-> 0, value |-> NoTime]]
  /\ timeRead = [i \in Items |-> NoTime]
  /\ versions = 1
  /\ delete_before = FALSE
  /\ strategy = NoStrategy
  /\ gens = [d \in Gens |-> Absent]
  /\ last = 0
  /\ lastLog = 0
  /\ now = 0
  /\ runs = 0
  /\ pc = "idle"
  /\ current = 0
  /\ previous = 0
  /\ bytesFree = 0
  /\ freeNow = 0
  /\ srcBytes = -1
  /\ success = FALSE
  /\ result = BackupResult(0, 0)
  /\ exitPlan = "none"
  /\ exitCode = -1
  /\ step = NoStep
  /\ toolRuns = 0
  /\ removed = <<>>
  /\ pre = NoPre
  /\ preCleanup = {}
  /\ cleanupArg = -1
  /\ ratioUsed = NoRatio
  /\ caught = "none"
  /\ invoked = <<>>

\* StoreManager(backup_dir), lines 23-50: previous generation, new generation
\* directory of this second, free bytes of the partition
NewStoreManager ==
  /\ pc = "idle"
  /\ runs < MaxRuns
  /\ \E t \in Gens, free \in FreeSizes :
       /\ t \in {now, now + 1}
       /\ previous' = PreviousDir(gens)
       /\ gens' = [gens EXCEPT ![t] = IF gens[t].exists THEN gens[t] ELSE EmptyDir]
       /\ current' = t
       /\ now' = t
       /\ bytesFree' = free
       /\ freeNow' = free
  /\ runs' = runs + 1
  /\ timeRead' = [i \in Items |-> NoTime]
  /\ UNCHANGED <<cfgVars, last, lastLog, cwdInfo, infoRead, cwdStamp, written, versionEnv, zbx, sent, store,
                 validation, versionCheck, cond, pc,
                 srcBytes, success, result, exitPlan, exitCode, step, invoked, toolRuns,
                 removed, pre, preCleanup, cleanupArg, ratioUsed, caught>>

\* store_database_backup_time(item), lines 118-121: datetime.now().isoformat()
\* written to <current>/<item>.timestamp
StoreDatabaseBackupTime ==
  /\ current # 0
  /\ gens[current].exists
  /\ \E item \in Items, micro \in Micros :
       /\ gens' = [gens EXCEPT ![current].stamps[item] = IsoFormat(<<now, micro>>)]
       /\ written' = [written EXCEPT ![item] = [gen |-> current, value |-> <<now, micro>>]]
  /\ UNCHANGED <<cfgVars, last, lastLog, smVars, cwdInfo, infoRead, cwdStamp, timeRead,
                 versionEnv, zbx, sent, store, validation, versionCheck, cond, pc,
                 srcBytes, success, result, exitPlan, exitCode, step, invoked, toolRuns,
                 removed, pre, preCleanup, cleanupArg, ratioUsed, caught>>

\* get_database_backup_time(item), lines 110-116
ReadDatabaseBackupTime ==
  /\ current # 0
  /\ \E item \in Items :
       /\ timeRead[item] = NoTime
       /\ timeRead' = [timeRead EXCEPT
                         ![item] = GetDatabaseBackupTime(gens, previous, cwdStamp, item)]
  /\ UNCHANGED <<cfgVars, fsVars, smVars, cwdInfo, infoRead, cwdStamp, written, versionEnv, zbx, sent, store,
                 validation, versionCheck, cond, pc,
                 srcBytes, success, result, exitPlan, exitCode, step, invoked, toolRuns,
                 removed, pre, preCleanup, cleanupArg, ratioUsed, caught>>

NextTimestamp ==
  \/ NewStoreManager
  \/ StoreDatabaseBackupTime
  \/ ReadDatabaseBackupTime

SpecTimestamp == InitTimestamp /\ [][NextTimestamp]_vars

\* ---------------------------------------------------------------- claims
\* The generation directories that existed when the run started
PreDirs == {d \in Gens : pre.gens[d].exists}

\* execute() has returned or raised: main is past line 303
ExecuteReturned == pc = "cleanup_after" /\ caught # "XtraBackup"

\* C1: after the retention step of a run that reached the backup step, the
\* backup root holds exactly min(N, G+1) generation directories, for
\* cleanup_before as for cleanup_after.
C1_RetentionLeavesMin ==
  (pc = "terminate" /\ caught # "XtraBackup") =>
    Cardinality(Dirs) = Min(versions, Cardinality(PreDirs) + 1)

\* The state right after _cleanup returned
JustCleaned ==
  \/ delete_before /\ pc = "construct"
  \/ ~delete_before /\ pc = "terminate"

\* C2: _cleanup(R) on N generation directories deletes exactly max(0, N-R) of
\* them, those with the smallest names, returns them oldest first, and
\* deletes nothing and returns the empty list when R >= N.
C2_CleanupRemovesOldest ==
  JustCleaned =>
    LET N == Cardinality(preCleanup)
        R == cleanupArg
        gone == Range(removed)
    IN /\ Len(removed) = Max(0, N - R)
       /\ Cardinality(gone) = Len(removed)
       /\ \A i, j \in 1..Len(removed) : i < j => removed[i] < removed[j]
       /\ gone \subseteq preCleanup
       /\ \A x \in gone, y \in preCleanup \ gone : x < y
       /\ Dirs = preCleanup \ gone
       /\ (R >= N => removed = <<>> /\ Dirs = preCleanup)

C2_Witness ==
  /\ JustCleaned
  /\ Cardinality(preCleanup) = 2
  /\ removed = <<1>>
  /\ Dirs = {2}

C4_FailureLeavesPointers ==
  (ExecuteReturned /\ result.failed = 1) =>
    /\ last = pre.last
    /\ lastLog = pre.lastLog
    /\ ~gens[current].info.present
    /\ gens[current].exists

\* C5: _check_free_space raises exactly when required > F, required being
\* 0.3*S with streamcompress, 1.5*S with tgz and no streamcompress, 1.2*S
\* otherwise; required = F does not raise.
C5_PreflightThreshold ==
  (srcBytes # -1 /\ pc # "preflight") =>
    LET S == srcBytes
        F == bytesFree
    IN (exitPlan = "nospace") <=>
         \/ strategy.streamcompress /\ 3 * S > 10 * F
         \/ ~strategy.streamcompress /\ strategy.tgz /\ 3 * S > 2 * F
         \/ ~strategy.streamcompress /\ ~strategy.tgz /\ 6 * S > 5 * F

C5_Witness ==
  /\ pc = "regular"
  /\ srcBytes > 0
  /\ strategy.tgz
  /\ 3 * srcBytes = 2 * bytesFree

\* C6: the required-bytes figure of the preflight is computed from the
\* compression ratio of the previous generation's metadata (0.5 without).
C6_PreflightUsesRatio ==
  (srcBytes # -1 /\ pc # "preflight") =>
    ratioUsed = GetBackupInfo(gens, previous, cwdInfo).compression_ratio

\* C7: when required > free, execute() raises instead of returning a failed
\* result, before any backup-tool or compression subprocess was started, has
\* written no metadata file and has changed neither last nor last.log.
C7_NoSpaceRaisesEarly ==
  /\ (srcBytes # -1 /\ pc # "preflight" /\ Required10(strategy, srcBytes) > 10 * bytesFree) =>
       /\ exitPlan = "nospace"
       /\ toolRuns = 0
       /\ step = NoStep
       /\ result.failed = 0
       /\ result.successful = 0
  /\ (exitPlan = "nospace" /\ pc = "report") =>
       /\ \A d \in Dirs : gens[d].info = pre.gens[d].info
       /\ last = pre.last
       /\ lastLog = pre.lastLog

C7_Witness ==
  /\ exitPlan = "nospace"
  /\ pc = "report"
  /\ pre.last # 0
  /\ \E d \in Dirs : gens[d].info.present

\* C8: a run that ends for insufficient disk space removes no generation
\* directory other than its own: the older generation directories after the
\* run are those before it, for both values of delete_before.
C8_NoSpaceKeepsOlder ==
  (exitPlan = "nospace" /\ pc = "exit") => Dirs \ {current} = PreDirs \ {current}

\* C9: _execute_regular and _execute_prepare report success iff the exit code
\* is 0 and "completed OK!" is in stdout or stderr.
C9_MarkerAndExitCode ==
  (step.name \in {"regular", "prepare"} /\ step.ran) =>
    /\ step.ok <=> (step.rc = 0 /\ (step.out \/ step.err))
    /\ success = step.ok

C9_Witness ==
  /\ step.name = "prepare"
  /\ step.ran
  /\ step.rc = 0
  /\ ~step.out
  /\ ~step.err
  /\ ~success

\* C10: _execute_streamcompress reports success iff the exit code is 0 and
\* backup.xbstream exists with size > 0, whether or not the marker was printed.
C10_StreamExitCodeAndSize ==
  (step.name = "streamcompress" /\ step.ran) =>
    /\ step.ok <=> (step.rc = 0 /\ step.size # -1 /\ step.size > 0)
    /\ success = step.ok

C10_Witness ==
  /\ step.name = "streamcompress"
  /\ step.ran
  /\ step.rc = 0
  /\ step.size > 0
  /\ ~step.err
  /\ success

\* C11: prepare is invoked only after regular returned success and only when
\* prepare is configured; tgz only when every earlier step succeeded and tgz
\* is configured; with streamcompress none of regular, prepare, tgz is
\* invoked; once a step fails no later step is invoked.
C11_StepOrder ==
  /\ \A i \in 1..Len(invoked) :
       /\ invoked[i].name = "prepare" =>
            /\ strategy.prepare
            /\ i = 2
            /\ invoked[1] = [name |-> "regular", ok |-> TRUE]
       /\ invoked[i].name = "tgz" =>
            /\ strategy.tgz
            /\ i > 1
            /\ invoked[1] = [name |-> "regular", ok |-> TRUE]
            /\ \A j \in 1..(i - 1) : invoked[j].ok
       /\ strategy.streamcompress => invoked[i].name = "streamcompress"
       /\ i < Len(invoked) => invoked[i].ok
  /\ \A i, j \in 1..Len(invoked) : invoked[i].name = invoked[j].name => i = j

C11_Witness ==
  /\ Len(invoked) = 3
  /\ invoked[2].name = "prepare"
  /\ invoked[3] = [name |-> "tgz", ok |-> FALSE]

\* C12: once the preflight has passed execute() does not raise: an exception
\* of a strategy step, of store_backup_info or of link_to_last_dir ends it
\* with BackupResult(failed=1, total=1) and main goes on after line 303.
C12_ExecuteNeverRaises ==
  /\ (caught \in {"store_backup_info", "link_to_last_dir"}) =>
       /\ result = BackupResult(0, 1)
       /\ result.total = 1
       /\ pc = "cleanup_after"
       /\ exitPlan = "none"
  /\ (step.name # "none" /\ ~step.ran) =>
       /\ result = BackupResult(0, 1)
       /\ pc = "cleanup_after"
       /\ exitPlan = "none"
       /\ caught = "none"

C12_Witness ==
  /\ caught = "link_to_last_dir"
  /\ result.failed = 1
  /\ Len(invoked) = 3

\* C14: after link_to_last_dir was called, <root>/last is a symlink to the
\* current generation and <root>/last.log a symlink to its opa.log, whatever
\* was at either location before (nothing, a regular file, a directory, a
\* symlink, a dangling symlink).
C14_LinkReplacesAnything ==
  (pc = "cleanup_after" /\ success /\ caught # "store_backup_info") =>
    /\ last = current
    /\ lastLog = current

\* remove_skipped has been called: the run ended on one of the three exits
\* that discard the generation
Discarded == pc = "exit" /\ exitPlan \in {"skip", "runfail", "nospace"}

\* C13: remove_skipped moves the current generation's opa.log to
\* <root>/last.log and deletes the current generation directory; it creates no
\* info.json and leaves <root>/last as it was.
C13_RemoveSkippedFrame ==
  Discarded =>
    /\ last = pre.last
    /\ \A d \in Dirs : gens[d].info = pre.gens[d].info
    /\ ~gens[current].exists
    /\ current \notin Range(removed) => lastLog = -1
    /\ Dirs = (PreDirs \ Range(removed)) \ {current}

C13_Witness ==
  /\ Discarded
  /\ exitPlan = "skip"
  /\ pre.last # 0
  /\ pre.lastLog # -1
  /\ lastLog = -1
  /\ Dirs # {}

\* C15: store_backup_info records compression_ratio = backup_bytes_used /
\* source_bytes, and 0 when source_bytes is 0; get_backup_info in the next run
\* returns the three fields the previous generation's run stored, and
\* (0, 0, 0.5) when the previous generation has no info.json or when there is
\* no previous generation.
C15_InfoRoundTrip ==
  /\ \A d \in Dirs :
       gens[d].info.present =>
         LET i == gens[d].info
         IN /\ i.mysql_data_dir_bytes_used # 0 =>
                 i.compression_ratio = <<i.backup_bytes_used, i.mysql_data_dir_bytes_used>>
            /\ i.mysql_data_dir_bytes_used = 0 => i.compression_ratio = <<0, 1>>
  /\ infoRead # NoInfo =>
       IF previous # 0 /\ gens[previous].exists /\ gens[previous].info.present
       THEN /\ infoRead.mysql_data_dir_bytes_used = gens[previous].info.mysql_data_dir_bytes_used
            /\ infoRead.backup_bytes_used = gens[previous].info.backup_bytes_used
            /\ infoRead.compression_ratio = gens[previous].info.compression_ratio
       ELSE /\ infoRead.mysql_data_dir_bytes_used = 0
            /\ infoRead.backup_bytes_used = 0
            /\ infoRead.compression_ratio = <<1, 2>>

\* C16: get_database_backup_time(item) returns 1900-01-01 00:00:00 when the
\* previous generation holds no <item>.timestamp file; a timestamp written by
\* store_database_backup_time(item) is exactly the value read for that item
\* by a run whose previous generation is the one it was written in.
C16_TimestampRoundTrip ==
  [][\A i \in Items :
       (timeRead[i] = NoTime /\ timeRead'[i] # NoTime) =>
         /\ (previous = 0 \/ ~gens[previous].exists \/ gens[previous].stamps[i] = NoFile) =>
              timeRead'[i] = Sentinel
         /\ (previous # 0 /\ gens[previous].exists /\ written[i].gen = previous) =>
              timeRead'[i] = written[i].value]_vars

\* ------------------------------------------- validate_xtrabackup_version alone
\* The environment of one call: database version, installed tool version,
\* distribution; nothing else of the program is in motion.
InitValidate ==
  /\ versionEnv \in VersionEnvs
  /\ validation = NoValidation
  /\ zbx = NoZbx
  /\ sent = NoSent
  /\ store = NoStore
  /\ versionCheck = NoVersionCheck
  /\ cond = NoCond
  /\ cwdInfo = NoInfo
  /\ infoRead = NoInfo
  /\ cwdStamp = [i \in Items |-> NoFile]
  /\ written = [i \in Items |-> [gen |-> 0, value |-> NoTime]]
  /\ timeRead = [i \in Items |-> NoTime]
  /\ versions = 1
  /\ delete_before = FALSE
  /\ strategy = NoStrategy
  /\ gens = [d \in Gens |-> Absent]
  /\ last = 0
  /\ lastLog = 0
  /\ now = 0
  /\ runs = 0
  /\ pc = "idle"
  /\ current = 0
  /\ previous = 0
  /\ bytesFree = 0
  /\ freeNow = 0
  /\ srcBytes = -1
  /\ success = FALSE
  /\ result = BackupResult(0, 0)
  /\ exitPlan = "none"
  /\ exitCode = -1
  /\ step = NoStep
  /\ toolRuns = 0
  /\ removed = <<>>
  /\ pre = NoPre
  /\ preCleanup = {}
  /\ cleanupArg = -1
  /\ ratioUsed = NoRatio
  /\ caught = "none"
  /\ invoked = <<>>

\* validate_xtrabackup_version(mysql_version, xtrabackup_version, distro_name,
\* distro_version, xtrabackup_bin), lines 216-277
Validate ==
  /\ versionEnv # NoVersionEnv
  /\ validation = NoValidation
  /\ zbx = NoZbx
  /\ sent = NoSent
  /\ store = NoStore
  /\ validation' = ValidateXtrabackupVersion(versionEnv)
  /\ UNCHANGED <<cfgVars, fsVars, smVars, pc, srcBytes, success, result, exitPlan, exitCode, step,
                 invoked, toolRuns, removed, pre, preCleanup, cleanupArg, ratioUsed, caught,
                 cwdInfo, infoRead, cwdStamp, written, timeRead, versionEnv, zbx, sent, store, versionCheck, cond>>

NextValidate == Validate

SpecValidate == InitValidate /\ [][NextValidate]_vars

\* A call of validate_xtrabackup_version has returned
Validated == validation # NoValidation

\* C17: validate_xtrabackup_version returns valid exactly when the installed
\* tool version is known and is the one required for the database version
\* (2.4 for 5.6 and 5.7, 8.0 for 8.0, 8.2 for 8.2, 8.4 for 8.4, none for any
\* other database version); a passing result carries no download locator.
C17_ValidIffRequired ==
  Validated =>
    LET m == versionEnv.mysql_version
        x == versionEnv.xtrabackup_version
    IN /\ validation.valid <=>
            \/ m \in {"5.6", "5.7"} /\ x = "2.4"
            \/ m = "8.0" /\ x = "8.0"
            \/ m = "8.2" /\ x = "8.2"
            \/ m = "8.4" /\ x = "8.4"
       /\ validation.valid =>
            validation.download_url = None /\ validation.message.locator = None

C17_Witness ==
  /\ Validated
  /\ validation.valid
  /\ versionEnv.mysql_version = "5.7"
  /\ versionEnv.xtrabackup_version = "2.4"

\* C18 as stated: for a database version with no required tool version the
\* check fails whatever the installed tool version is, the absent tool
\* included, and the message tells the operator to extend the table.
C18_UnmappedSaysExtend ==
  (Validated /\ versionEnv.mysql_version \notin {"5.6", "5.7", "8.0", "8.2", "8.4"}) =>
    /\ ~validation.valid
    /\ "extend" \in validation.message.phrases

\* C18 amended: for a database version with no required tool version the
\* check fails whatever the installed tool version is and returns no
\* download locator; with a known tool version the message tells the operator
\* to extend the table, with the tool absent it only says the binary was not
\* found.
C18_UnmappedFails ==
  (Validated /\ versionEnv.mysql_version \notin {"5.6", "5.7", "8.0", "8.2", "8.4"}) =>
    /\ ~validation.valid
    /\ validation.download_url = None
    /\ validation.message.locator = None
    /\ versionEnv.xtrabackup_version # NoneVersion =>
         "extend" \in validation.message.phrases
    /\ versionEnv.xtrabackup_version = NoneVersion =>
         validation.message.phrases = {"not found"}

C18_Witness ==
  /\ Validated
  /\ versionEnv.mysql_version = "10.6"
  /\ versionEnv.xtrabackup_version = "8.4"
  /\ ~validation.valid
  /\ "extend" \in validation.message.phrases

\* The (distribution, distribution version) pairs of XTRABACKUP_VERSION_MAP
TableDistros ==
  {<<"debian", "11">>, <<"debian", "12">>, <<"ubuntu", "20.04">>, <<"ubuntu", "22.04">>,
   <<"ubuntu", "24.04">>}

\* C19: with the tool version unknown the check fails and the message says
\* 'not found'; the message holds a download locator, which is also the third
\* element of the result, exactly when the database version has a required
\* tool version and (distribution, distribution version, database version) is
\* in the table; otherwise the third element is None and no download is
\* suggested.
C19_NotFoundLocator ==
  (Validated /\ versionEnv.xtrabackup_version = NoneVersion) =>
    LET inTable ==
          /\ versionEnv.mysql_version \in {"5.6", "5.7", "8.0", "8.2", "8.4"}
          /\ <<versionEnv.distro_name, versionEnv.distro_version>> \in TableDistros
    IN /\ ~validation.valid
       /\ "not found" \in validation.message.phrases
       /\ validation.message.locator = validation.download_url
       /\ inTable <=> validation.download_url # None
       /\ inTable <=> "Download" \in validation.message.phrases

C19_Witness ==
  /\ Validated
  /\ versionEnv.xtrabackup_version = NoneVersion
  /\ versionEnv.mysql_version = "8.0"
  /\ versionEnv.distro_name = "debian"
  /\ versionEnv.distro_version = "11"
  /\ validation.download_url = <<"8.0", "bullseye">>
  /\ validation.message.locator = <<"8.0", "bullseye">>

\* C20: a failed compatibility check ends the run with exit status 1, before
\* any condition check or backup, only when check_xtrabackup_version is true;
\* when it is false a failed check is at most a warning and the run goes on
\* to the skip-condition check.
C20_StrictEndsLenientWarns ==
  [][pc = "versions" =>
       LET vc == versionCheck'
           failed == vc.validated /\ ~vc.version_valid
       IN /\ vc.done
          /\ pc' \in {"exit", "skip"}
          /\ (~vc.raised /\ pc' = "exit") => (vc.check_xtrabackup_version /\ failed)
          /\ (vc.check_xtrabackup_version /\ failed) =>
               /\ pc' = "exit"
               /\ exitCode' = 1
               /\ ~vc.warned
               /\ toolRuns' = 0
               /\ invoked' = <<>>
               /\ srcBytes' = -1
               /\ result' = BackupResult(0, 0)
          /\ (~vc.raised /\ ~vc.check_xtrabackup_version) =>
               /\ pc' = "skip"
               /\ exitCode' = -1
               /\ vc.warned <=> failed]_vars

C20_Witness ==
  /\ pc = "exit"
  /\ exitPlan = "version"
  /\ exitCode = 1
  /\ ~versionCheck.raised
  /\ versionCheck.check_xtrabackup_version
  /\ versionCheck.validated
  /\ ~versionCheck.version_valid

\* ------------------------------------------------- the ConditionsManager alone
\* Either a list of configured commands, with what running each comes to, and
\* the path handed to execute_terminate_conditions, before any method is
\* called; or main after execute() and the retention cleanup, about to run the
\* terminate conditions, with each result execute() can have left.
InitConditions ==
  /\ ApiIdle
  /\ versionCheck = NoVersionCheck
  /\ versions = 1
  /\ delete_before = FALSE
  /\ strategy = NoStrategy
  /\ last = 0
  /\ lastLog = 0
  /\ bytesFree = 0
  /\ freeNow = 0
  /\ srcBytes = -1
  /\ success = FALSE
  /\ exitPlan = "none"
  /\ exitCode = -1
  /\ step = NoStep
  /\ toolRuns = 0
  /\ removed = <<>>
  /\ pre = NoPre
  /\ preCleanup = {}
  /\ cleanupArg = -1
  /\ ratioUsed = NoRatio
  /\ caught = "none"
  /\ invoked = <<>>
  /\ previous = 0
  /\ \/ /\ pc = "idle"
        /\ \E commands \in CondCommands, dir \in Gens :
             cond = CondCall("none", commands, dir, CondReturn(FALSE, <<>>))
        /\ gens = [d \in Gens |-> Absent]
        /\ now = 0
        /\ runs = 0
        /\ current = 0
        /\ result = BackupResult(0, 0)
     \/ /\ pc = "terminate"
        /\ cond = NoCond
        /\ gens = MakeCurrent([d \in Gens |-> Absent], 1)
        /\ now = 1
        /\ runs = 1
        /\ current = 1
        /\ result \in {BackupResult(1, 0), BackupResult(0, 1), BackupResult(0, 0)}

\* conditions_manager.check_skip_conditions()
CallCheckSkipConditions ==
  /\ pc = "idle"
  /\ cond.fn = "none"
  /\ cond' = CondCall("check_skip_conditions", cond.commands, cond.dir,
                      CheckSkipConditions(cond.commands))
  /\ UNCHANGED <<cfgVars, apiVars, versionCheck, fsVars, smVars, pc, srcBytes, success, result,
                 exitPlan, exitCode, step, invoked, toolRuns, removed, pre, preCleanup,
                 cleanupArg, ratioUsed, caught>>

\* conditions_manager.check_run_conditions()
CallCheckRunConditions ==
  /\ pc = "idle"
  /\ cond.fn = "none"
  /\ cond' = CondCall("check_run_conditions", cond.commands, cond.dir,
                      CheckRunConditions(cond.commands))
  /\ UNCHANGED <<cfgVars, apiVars, versionCheck, fsVars, smVars, pc, srcBytes, success, result,
                 exitPlan, exitCode, step, invoked, toolRuns, removed, pre, preCleanup,
                 cleanupArg, ratioUsed, caught>>

\* conditions_manager.execute_terminate_conditions(current_backup_dir)
CallExecuteTerminateConditions ==
  /\ pc = "idle"
  /\ cond.fn = "none"
  /\ cond' = CondCall("execute_terminate_conditions", cond.commands, cond.dir,
                      ExecuteTerminateConditions(cond.commands, cond.dir))
  /\ UNCHANGED <<cfgVars, apiVars, versionCheck, fsVars, smVars, pc, srcBytes, success, result,
                 exitPlan, exitCode, step, invoked, toolRuns, removed, pre, preCleanup,
                 cleanupArg, ratioUsed, caught>>

NextConditions ==
  \/ CallCheckSkipConditions
  \/ CallCheckRunConditions
  \/ CallExecuteTerminateConditions
  \/ Terminate
  \/ Report

SpecConditions == InitConditions /\ [][NextConditions]_vars

\* The places in the list of the commands a call ran, in the order it ran them
RanCommands == [k \in 1..Len(cond.ran) |-> cond.ran[k].command]

\* The first n places of a list, in order
UpTo(n) == [k \in 1..n |-> k]

\* C21: check_skip_conditions returns true exactly when some configured
\* command exits with code 0; it runs the commands in configured order and
\* stops at the first that exits 0; with no commands it returns false and
\* runs nothing.
C21_SkipIffSomeExitsZero ==
  cond.fn = "check_skip_conditions" =>
    LET commands == cond.commands
        zeros == {k \in 1..Len(commands) : commands[k] = 0}
    IN /\ cond.ret <=> zeros # {}
       /\ RanCommands = UpTo(IF zeros = {} THEN Len(commands) ELSE SetMin(zeros))
       /\ Len(commands) = 0 => (~cond.ret /\ cond.ran = <<>>)

C21_Witness ==
  /\ cond.fn = "check_skip_conditions"
  /\ Len(cond.commands) = 2
  /\ cond.commands[1] = 0
  /\ cond.ret
  /\ Len(cond.ran) = 1

\* C22: check_run_conditions returns true exactly when every configured
\* command exits with code 0; it runs the commands in configured order and
\* stops at the first that does not exit 0; with no commands it returns true.
C22_RunIffAllExitZero ==
  cond.fn = "check_run_conditions" =>
    LET commands == cond.commands
        nonzeros == {k \in 1..Len(commands) : commands[k] # 0}
    IN /\ cond.ret <=> nonzeros = {}
       /\ RanCommands = UpTo(IF nonzeros = {} THEN Len(commands) ELSE SetMin(nonzeros))
       /\ Len(commands) = 0 => cond.ret

C22_Witness ==
  /\ cond.fn = "check_run_conditions"
  /\ Len(cond.commands) = 2
  /\ cond.commands[1] = 2
  /\ cond.commands[2] = 0
  /\ ~cond.ret
  /\ Len(cond.ran) = 1

\* C23: execute_terminate_conditions runs every configured command, also
\* after one has failed, each with OMA_CURRENT_DIR set to the path it was
\* given, which in main is the current generation, and returns true exactly
\* when all exited 0; whatever it returns, main leaves the backup result as
\* it is and ends with the exit status it would have had.
C23_TerminateRunsAll ==
  [][/\ (cond.fn # "execute_terminate_conditions"
          /\ cond'.fn = "execute_terminate_conditions") =>
          /\ [k \in 1..Len(cond'.ran) |-> cond'.ran[k].command] = UpTo(Len(cond'.commands))
          /\ \A k \in 1..Len(cond'.ran) : cond'.ran[k].OMA_CURRENT_DIR = cond'.dir
          /\ cond'.ret <=> \A k \in 1..Len(cond'.commands) : cond'.commands[k] = 0
          /\ pc = "terminate" => (cond'.dir = current /\ current # 0)
          /\ result' = result
          /\ exitCode' = exitCode
     /\ (pc = "report" /\ cond.fn = "execute_terminate_conditions") =>
          /\ result' = result
          /\ exitCode' = 0
          /\ pc' = "exit"]_vars

C23_Witness ==
  /\ pc = "report"
  /\ cond.fn = "execute_terminate_conditions"
  /\ cond.commands = <<1, 0>>
  /\ Len(cond.ran) = 2
  /\ ~cond.ret
  /\ result = BackupResult(1, 0)

\* a list of commands with each timeout and each failure to start replaced by
\* a command that exits 1
AsNonzeroExit(commands) ==
  [k \in 1..Len(commands) |->
     IF commands[k] \in {Timeout, SpawnError} THEN 1 ELSE commands[k]]

\* C24: a command that times out or cannot be started counts exactly like one
\* that exits with a nonzero code: every method returns, and runs, what it
\* does for the same list with those commands exiting 1; in particular such
\* a command never meets a skip condition and always fails a run or terminate
\* condition.
C24_TimeoutIsNonzeroExit ==
  cond.fn # "none" =>
    LET commands == cond.commands
        same == AsNonzeroExit(commands)
        returned == CondReturn(cond.ret, cond.ran)
        broken == {k \in 1..Len(commands) : commands[k] \in {Timeout, SpawnError}}
    IN /\ cond.ret \in BOOLEAN
       /\ cond.fn = "check_skip_conditions" =>
            /\ returned = CheckSkipConditions(same)
            /\ cond.ret => commands[cond.ran[Len(cond.ran)].command] = 0
       /\ cond.fn = "check_run_conditions" =>
            /\ returned = CheckRunConditions(same)
            /\ (\E k \in 1..Len(cond.ran) : cond.ran[k].command \in broken) => ~cond.ret
       /\ cond.fn = "execute_terminate_conditions" =>
            /\ returned = ExecuteTerminateConditions(same, cond.dir)
            /\ broken # {} => ~cond.ret

C24_Witness ==
  /\ cond.fn = "check_skip_conditions"
  /\ cond.commands = <<Timeout, SpawnError>>
  /\ ~cond.ret
  /\ Len(cond.ran) = 2

\* The terminal outcomes that hold in a RunResult
Outcomes(r) ==
  {o \in {"successful", "failed", "all_skipped_successfully", "all_skipped_faulty"} :
     \/ o = "successful" /\ r.successful = 1
     \/ o = "failed" /\ r.failed = 1
     \/ o = "all_skipped_successfully" /\ r.all_skipped_successfully
     \/ o = "all_skipped_faulty" /\ r.all_skipped_faulty}

\* C25: wherever main sends the final report, exactly one of successful=1,
\* failed=1, all_skipped_successfully, all_skipped_faulty holds in the
\* result it passes.
C25_OneTerminalOutcome ==
  pc = "report" => Cardinality(Outcomes(result)) = 1

\* C26: the process ends with status 0 after a successful backup run and
\* after a run skipped by a skip condition, and with status 1 when the run
\* ends for insufficient disk space, for a failed compatibility check in
\* strict mode, or for a failed run condition.
C26_ExitStatus ==
  pc = "exit" =>
    /\ (exitPlan = "none" /\ result.successful = 1) => exitCode = 0
    /\ exitPlan = "skip" => exitCode = 0
    /\ exitPlan \in {"nospace", "version", "runfail"} => exitCode = 1

C26_Witness ==
  /\ pc = "exit"
  /\ runs = 2
  /\ exitPlan = "nospace"
  /\ exitCode = 1
  /\ last = 1
  /\ lastLog = -1

\* The n newest of the generation directories D
Newest(n, D) == {d \in D : Cardinality({e \in D : e > d}) < n}

\* C27: once execute() has returned a failed result, main performs the
\* retention cleanup (cleanup_after(versions) unless delete_before), then
\* runs every terminate condition, then sends the final report and ends, in
\* that order.
C27_FailureStillCleansUp ==
  [][/\ (result.failed # 1 /\ result'.failed = 1) => pc' = "cleanup_after"
     /\ (result.failed = 1 /\ exitPlan = "none") =>
          /\ pc = "cleanup_after" =>
               /\ pc' = "terminate"
               /\ ~delete_before =>
                    /\ cleanupArg' = versions
                    /\ {d \in Gens : gens'[d].exists} = Newest(versions, Dirs)
               /\ delete_before => gens' = gens
               /\ result' = result
          /\ pc = "terminate" =>
               /\ pc' = "report"
               /\ cond'.fn = "execute_terminate_conditions"
               /\ Len(cond'.ran) = Len(cond'.commands)
               /\ result' = result
          /\ pc = "report" =>
               /\ pc' = "exit"
               /\ result' = result]_vars

C27_Witness ==
  /\ pc = "exit"
  /\ exitPlan = "none"
  /\ result.failed = 1
  /\ ~delete_before
  /\ cleanupArg = versions
  /\ removed = <<1>>
  /\ Dirs = {2}

\* ------------------------------------------------------- send_log_file alone
MaxLines == 2

\* Lengths of the path of the log file
LogFileLens == {24, 40}

\* Lengths of log lines: empty, short, and lines that fill the budget of a
\* successful run's report with the shorter path exactly or to one character
LineLens ==
  {0, 90, 200, max_bytes - MessageLen(24) - 54 - 2, max_bytes - MessageLen(24) - 54 - 3,
   70000}

LogTexts == UNION {[1..n -> LineLens] : n \in 0..MaxLines}

BackupResults ==
  {BackupResult(1, 0), BackupResult(0, 1),
   [BackupResult(0, 0) EXCEPT !.all_skipped_successfully = TRUE],
   [BackupResult(0, 0) EXCEPT !.all_skipped_faulty = TRUE]}

InitSendLog ==
  /\ zbx \in [item_key : BOOLEAN, log_file : LogFileLens, log : LogTexts,
              backup_result : BackupResults]
  /\ sent = NoSent
  /\ store = NoStore
  /\ versionEnv = NoVersionEnv
  /\ validation = NoValidation
  /\ cwdInfo = NoInfo
  /\ infoRead = NoInfo
  /\ cwdStamp = [i \in Items |-> NoFile]
  /\ written = [i \in Items |-> [gen |-> 0, value |-> NoTime]]
  /\ timeRead = [i \in Items |-> NoTime]
  /\ versionCheck = NoVersionCheck
  /\ cond = NoCond
  /\ versions = 1
  /\ delete_before = FALSE
  /\ strategy = NoStrategy
  /\ gens = [d \in Gens |-> Absent]
  /\ last = 0
  /\ lastLog = 0
  /\ now = 0
  /\ runs = 0
  /\ pc = "idle"
  /\ current = 0
  /\ previous = 0
  /\ bytesFree = 0
  /\ freeNow = 0
  /\ srcBytes = -1
  /\ success = FALSE
  /\ result = BackupResult(0, 0)
  /\ exitPlan = "none"
  /\ exitCode = -1
  /\ step = NoStep
  /\ toolRuns = 0
  /\ removed = <<>>
  /\ pre = NoPre
  /\ preCleanup = {}
  /\ cleanupArg = -1
  /\ ratioUsed = NoRatio
  /\ caught = "none"
  /\ invoked = <<>>

\* zabbix_sender.send_log_file(backup_result)
CallSendLogFile ==
  /\ zbx # NoZbx
  /\ sent = NoSent
  /\ sent' = SendLogFile(zbx)
  /\ UNCHANGED <<cfgVars, fsVars, smVars, pc, srcBytes, success, result, exitPlan, exitCode, step,
                 invoked, toolRuns, removed, pre, preCleanup, cleanupArg, ratioUsed, caught,
                 cwdInfo, infoRead, cwdStamp, written, timeRead, versionEnv, validation, zbx,
                 store, versionCheck, cond>>

NextSendLog == CallSendLogFile

SpecSendLog == InitSendLog /\ [][NextSendLog]_vars

\* C28: the value send_log_file hands to send_value is never longer than
\* 65536 characters; summary plus log shorter than 65536 is sent unchanged,
\* otherwise whole lines are kept from the start, the summary line first,
\* until the budget is reached, and the truncation notice is appended.
C28_SentWithinBudget ==
  sent.called =>
    LET whole == SummaryLen(zbx.backup_result) + 1 + TextLen(zbx.log)
    IN /\ sent.len <= 65536
       /\ whole < 65536 => (sent.len = whole /\ ~sent.notice /\ sent.kept = 1 + Len(zbx.log))
       /\ whole >= 65536 => (sent.notice /\ sent.kept <= 1 + Len(zbx.log))

\* C29: cleanup_before(N) and cleanup_after(N) with N >= 1 never delete the
\* generation directory the same StoreManager created: current_dir.path
\* exists after the call if it did before.
C29_CleanupKeepsCurrent ==
  [][(pc \in {"cleanup_before", "cleanup_after"} /\ versions >= 1 /\ gens[current].exists)
       => gens'[current].exists]_vars

\* C30: after any sequence of runs with retention N >= 1, <root>/last, if
\* there is one, resolves to a generation directory that exists.
C30_LastNeverDangles ==
  (pc = "exit" /\ versions >= 1 /\ last # 0) => (last \in Gens /\ gens[last].exists)

\* C31: after any sequence of runs with retention N >= 1 in which some run
\* succeeded (<root>/last has been pointed at its generation), at least one
\* generation holding info.json is on disk when a run has ended.
C31_FinalizedGenerationRemains ==
  (pc = "exit" /\ versions >= 1 /\ last \in Gens) =>
    \E d \in Dirs : gens[d].info.present

\* C32: a run that ends before the backup step (failed version check under
\* check_xtrabackup_version, error while querying the versions, matched skip
\* condition, failed run condition) leaves the generation directories of the
\* backup root as they were before the run.
C32_EarlyExitLeavesNoGeneration ==
  (pc = "exit" /\ exitPlan \in {"version", "skip", "runfail"}) => Dirs = PreDirs

\* C33: whenever the backup attempt of a run has failed (execute() returned
\* failed=1, or constructing or executing the engine raised an exception
\* other than NotEnoughDiskSpaceError), the process ends with a nonzero
\* exit status.
C33_FailedBackupExitsNonzero ==
  (pc = "exit" /\ exitPlan = "none" /\ (result.failed = 1 \/ caught # "none")) =>
    exitCode # 0

\* The early exits that discard the generation
DiscardPlans == {"skip", "runfail", "nospace"}

\* C34: on every early exit that discards the generation (matched skip
\* condition, failed run condition, insufficient disk space) main sends the
\* report first, with the backup root as it is, then calls remove_skipped and
\* ends; it runs neither cleanup_after nor the terminate conditions.
C34_ReportBeforeRemove ==
  [][/\ (exitPlan = "none" /\ exitPlan' \in DiscardPlans) => pc' = "report"
     /\ exitPlan \in DiscardPlans =>
          /\ pc \in {"report", "remove", "exit"}
          /\ pc = "report" => (pc' = "remove" /\ gens' = gens /\ lastLog' = lastLog)
          /\ pc = "remove" => pc' = "exit"
          /\ pc # "exit" =>
               /\ exitPlan' = exitPlan
               /\ cleanupArg' = cleanupArg
               /\ removed' = removed
               /\ cond' = NoCond]_vars

C34_Witness ==
  /\ pc = "exit"
  /\ exitPlan = "runfail"
  /\ exitCode = 1
  /\ ~gens[current].exists
  /\ lastLog = -1
  /\ cleanupArg = -1

\* Positions of main at which neither check has been passed yet
BeforeChecks == {"idle", "versions", "skip", "run"}

LoggedDir == [EmptyDir EXCEPT !.log = TRUE]

InitRemoveSkipped ==
  /\ ApiIdle
  /\ versionCheck = NoVersionCheck
  /\ cond = NoCond
  /\ versions = 1
  /\ delete_before = FALSE
  /\ strategy = NoStrategy
  /\ current \in Gens
  /\ gens \in [Gens -> {Absent, EmptyDir, LoggedDir}]
  /\ gens[current].exists
  /\ \A d \in Gens : d > current => ~gens[d].exists
  /\ last \in {0} \cup {d \in Gens : d < current}
  /\ lastLog \in {0, -1, -2} \cup {d \in Gens : d < current}
  /\ now = current
  /\ runs = 1
  /\ pc = "remove"
  /\ previous = PreviousDir([gens EXCEPT ![current] = Absent])
  /\ bytesFree \in FreeSizes
  /\ freeNow = bytesFree
  /\ srcBytes = -1
  /\ success = FALSE
  /\ \E plan \in DiscardPlans :
       /\ exitPlan = plan
       /\ result = [BackupResult(0, 0) EXCEPT
                      !.all_skipped_successfully = (plan = "skip"),
                      !.all_skipped_faulty = (plan # "skip")]
  /\ exitCode = -1
  /\ step = NoStep
  /\ toolRuns = 0
  /\ removed = <<>>
  /\ pre = NoPre
  /\ preCleanup = {}
  /\ cleanupArg = -1
  /\ ratioUsed = NoRatio
  /\ caught = "none"
  /\ invoked = <<>>

NextRemoveSkipped == RemoveSkipped

SpecRemoveSkipped == InitRemoveSkipped /\ [][NextRemoveSkipped]_vars

\* C36: when the move of the log file to <root>/last.log fails in
\* remove_skipped, the error reaches the caller (the process ends with status
\* 1, whatever sys.exit would have passed) and the current generation
\* directory, <root>/last and <root>/last.log stay as they are.
C36_FailedRenameKeepsGeneration ==
  [][(pc = "remove" /\ (~gens[current].log \/ lastLog = -2)) =>
       (exitCode' = 1 /\ gens' = gens /\ last' = last /\ lastLog' = lastLog)]_vars

C36_Witness ==
  /\ pc = "exit"
  /\ exitPlan = "skip"
  /\ exitCode = 1
  /\ gens[current].exists
  /\ ~gens[current].log
  /\ lastLog # -2

\* ---------------------------------------------------------------- entry names
\* StoreManager used on a backup root that is given by the names and kinds of
\* its entries, so that _get_backup_dirs works on names as the code does.
\* A name is the sequence of its characters.
\* DIR_PREFIX followed by "_"
Opa == <<"o", "p", "a", "_">>
Digits == {"0", "1", "2", "3", "4", "5", "6", "7", "8", "9"}

\* Code points of the characters that occur, the order of str comparison
Ord ==
  [c \in Digits \cup {"\n", "-", ".", "_", "a", "g", "l", "o", "p", "s", "t", "x"} |->
     CASE c = "\n" -> 10 [] c = "-" -> 45 [] c = "." -> 46
       [] c = "0" -> 48 [] c = "1" -> 49 [] c = "2" -> 50 [] c = "3" -> 51
       [] c = "4" -> 52 [] c = "5" -> 53 [] c = "6" -> 54 [] c = "7" -> 55
       [] c = "8" -> 56 [] c = "9" -> 57 [] c = "_" -> 95 [] c = "a" -> 97
       [] c = "g" -> 103 [] c = "l" -> 108 [] c = "o" -> 111 [] c = "p" -> 112
       [] c = "s" -> 115 [] c = "t" -> 116 [] c = "x" -> 120]

\* datetime.now().strftime("%Y%m%d-%H%M%S") at three consecutive seconds
Stamp(sec) ==
  <<"2", "0", "2", "4", "0", "1", "0", "1", "-", "0", "0", "0", "0", "0", sec>>
Stamps == {Stamp("1"), Stamp("2"), Stamp("3")}

\* Entries a backup root may hold: generation directories, entries left by
\* someone else, and the two the program keeps beside the generations
NameOf(stamp) == Opa \o stamp
LowCopy == Opa \o <<"0", "_">> \o NameOf(Stamp("1"))
HighCopy == Opa \o <<"x", "_">> \o NameOf(Stamp("1"))
ShortName == Opa \o SubSeq(Stamp("1"), 1, 14)
LastName == <<"l", "a", "s", "t">>
LastLogName == <<"l", "a", "s", "t", ".", "l", "o", "g">>
Names ==
  {NameOf(st) : st \in Stamps} \cup {LowCopy, HighCopy, ShortName, LastName, LastLogName}
Kinds == {"absent", "dir", "file"}
\* The kinds considered for each entry: last and last.log are no directories
\* (and are both there or both missing),
\* a regular file may sit under a foreign name and under the newest stamp
KindsOf(n) ==
  IF n \in {LastName, LastLogName} THEN {"absent", "file"}
  ELSE IF n \in {LowCopy, HighCopy, NameOf(Stamp("3"))} THEN Kinds
  ELSE {"absent", "dir"}

\* str.__lt__: the first differing character decides, a proper prefix is less
RECURSIVE LessFrom(_, _, _)
LessFrom(a, b, i) ==
  IF i > Len(b) THEN FALSE
  ELSE IF i > Len(a) THEN TRUE
  ELSE IF a[i] = b[i] THEN LessFrom(a, b, i + 1)
  ELSE Ord[a[i]] < Ord[b[i]]
Less(a, b) == LessFrom(a, b, 1)

\* list.sort() of paths in one directory
RECURSIVE SortNames(_)
SortNames(S) ==
  IF S = {} THEN <<>>
  ELSE LET m == CHOOSE x \in S : \A y \in S \ {x} : Less(x, y)
       IN <<m>> \o SortNames(S \ {m})

\* glob(<backup_dir>/opa_*), line 150
GlobMatches(n) == Len(n) >= Len(Opa) /\ SubSeq(n, 1, Len(Opa)) = Opa

\* opa_\d{8}-\d{6} matched at position i of the name, line 152
MatchesAt(n, i) ==
  /\ i + 18 <= Len(n)
  /\ SubSeq(n, i, i + 3) = Opa
  /\ \A k \in (i + 4)..(i + 11) : n[k] \in Digits
  /\ n[i + 12] = "-"
  /\ \A k \in (i + 13)..(i + 18) : n[k] \in Digits

\* pattern.search(os.path.basename(d)), line 153: a match anywhere in the
\* name that ends at its end, or just before one newline at its end
PatternSearch(n) ==
  \E i \in 1..Len(n) :
    /\ MatchesAt(n, i)
    /\ \/ i + 18 = Len(n)
       \/ (i + 19 = Len(n) /\ n[Len(n)] = "\n")

\* _get_backup_dirs, lines 144-157, on the entries of root
BackupDirsByName(root) ==
  SortNames({n \in Names : root[n] # "absent" /\ GlobMatches(n) /\ PatternSearch(n)})

\* Mutant of MakedirsRaises: os.makedirs without exist_ok.
MakedirsRaisesOnExisting(kind) == kind # "absent"

\* os.makedirs(current_dir, exist_ok=True), line 49: FileExistsError only
\* when the path exists and is no directory
MakedirsRaises(kind) == kind = "file"

\* __init__, lines 38-50: the previous directory from the listing (taken of
\* the root as it was at line 40), then os.makedirs of the new directory in
\* the root as it is at line 49
NewStoreManagerOn(listed, root, stamp) ==
  LET listing == BackupDirsByName(listed)
      name == NameOf(stamp)
  IN IF MakedirsRaises(root[name])
     THEN [phase |-> "raised", root |-> root, pre |-> root, previous |-> <<>>,
           current |-> <<>>, listing |-> listing, removed |-> <<>>, again |-> <<>>]
     ELSE [phase |-> "constructed", root |-> [root EXCEPT ![name] = "dir"], pre |-> root,
           previous |-> IF listing = <<>> THEN <<>> ELSE listing[Len(listing)],
           current |-> name, listing |-> listing, removed |-> <<>>, again |-> <<>>]

\* _cleanup, lines 165-173: shutil.rmtree of the oldest entries in turn;
\* rmtree raises NotADirectoryError on a regular file, which ends the loop
RECURSIVE RemoveLoop(_, _, _)
RemoveLoop(root, dirs, done) ==
  IF dirs = <<>> THEN [root |-> root, removed |-> done, raised |-> FALSE]
  ELSE IF root[Head(dirs)] = "file" THEN [root |-> root, removed |-> done, raised |-> TRUE]
  ELSE RemoveLoop([root EXCEPT ![Head(dirs)] = "absent"], Tail(dirs),
                  Append(done, Head(dirs)))

\* _cleanup(versions), lines 159-175
CleanupOn(root, v) ==
  LET backup_dirs == BackupDirsByName(root)
  IN IF Len(backup_dirs) > v
     THEN RemoveLoop(root, SubSeq(backup_dirs, 1, Len(backup_dirs) - v), <<>>)
     ELSE [root |-> root, removed |-> <<>>, raised |-> FALSE]

InitNames ==
  /\ versionEnv = NoVersionEnv
  /\ validation = NoValidation
  /\ zbx = NoZbx
  /\ sent = NoSent
  /\ cwdInfo = NoInfo
  /\ infoRead = NoInfo
  /\ cwdStamp = [i \in Items |-> NoFile]
  /\ written = [i \in Items |-> [gen |-> 0, value |-> NoTime]]
  /\ timeRead = [i \in Items |-> NoTime]
  /\ \E root \in [Names -> Kinds] :
       /\ \A n \in Names : root[n] \in KindsOf(n)
       /\ root[LastName] = root[LastLogName]
       /\ store = [NoStore EXCEPT !.phase = "idle", !.root = root, !.pre = root]
  /\ versionCheck = NoVersionCheck
  /\ cond = NoCond
  /\ versions \in 1..MaxVersions
  /\ delete_before \in BOOLEAN
  /\ strategy = NoStrategy
  /\ gens = [d \in Gens |-> Absent]
  /\ last = 0
  /\ lastLog = 0
  /\ now = 0
  /\ runs = 0
  /\ pc = "idle"
  /\ current = 0
  /\ previous = 0
  /\ bytesFree = 0
  /\ freeNow = 0
  /\ srcBytes = -1
  /\ success = FALSE
  /\ result = BackupResult(0, 0)
  /\ exitPlan = "none"
  /\ exitCode = -1
  /\ step = NoStep
  /\ toolRuns = 0
  /\ removed = <<>>
  /\ pre = NoPre
  /\ preCleanup = {}
  /\ cleanupArg = -1
  /\ ratioUsed = NoRatio
  /\ caught = "none"
  /\ invoked = <<>>

\* StoreManager(backup_dir) at one of the seconds
ConstructOnNames ==
  /\ store.phase = "idle"
  /\ \E stamp \in Stamps : store' = NewStoreManagerOn(store.root, store.root, stamp)
  /\ UNCHANGED <<cfgVars, fsVars, smVars, pc, srcBytes, success, result, exitPlan, exitCode, step,
                 invoked, toolRuns, removed, pre, preCleanup, cleanupArg, ratioUsed, caught,
                 cwdInfo, infoRead, cwdStamp, written, timeRead, versionEnv, validation, zbx,
                 sent, versionCheck, cond>>

\* A second StoreManager(backup_dir) within the same second, by a rerun or by
\* a process that runs side by side with the first: its listing is taken
\* before or after the first one made the directory.
ConstructAgainOnNames ==
  /\ store.phase = "constructed"
  /\ store.again = <<>>
  /\ \E early \in BOOLEAN, stamp \in Stamps :
       /\ NameOf(stamp) = store.current
       /\ LET second == NewStoreManagerOn(IF early THEN store.pre ELSE store.root,
                                          store.root, stamp)
          IN store' = [store EXCEPT
                         !.root = second.root,
                         !.again = [phase |-> second.phase, previous |-> second.previous,
                                    current |-> second.current]]
  /\ UNCHANGED <<cfgVars, fsVars, smVars, pc, srcBytes, success, result, exitPlan, exitCode, step,
                 invoked, toolRuns, removed, pre, preCleanup, cleanupArg, ratioUsed, caught,
                 cwdInfo, infoRead, cwdStamp, written, timeRead, versionEnv, validation, zbx,
                 sent, versionCheck, cond>>

\* cleanup_before(versions) under delete_before, cleanup_after(versions)
\* otherwise, lines 123-127
CleanupOnNames ==
  /\ store.phase = "constructed"
  /\ LET v == IF delete_before THEN CleanupBeforeTarget(versions)
                               ELSE CleanupAfterTarget(versions)
         r == CleanupOn(store.root, v)
     IN store' = [store EXCEPT !.phase = IF r.raised THEN "cleanup_raised" ELSE "cleaned",
                               !.pre = store.root,
                               !.root = r.root,
                               !.listing = BackupDirsByName(store.root),
                               !.removed = r.removed]
  /\ UNCHANGED <<cfgVars, fsVars, smVars, pc, srcBytes, success, result, exitPlan, exitCode, step,
                 invoked, toolRuns, removed, pre, preCleanup, cleanupArg, ratioUsed, caught,
                 cwdInfo, infoRead, cwdStamp, written, timeRead, versionEnv, validation, zbx,
                 sent, versionCheck, cond>>

NextNames ==
  \/ ConstructOnNames
  \/ ConstructAgainOnNames
  \/ CleanupOnNames

SpecNames == InitNames /\ [][NextNames]_vars

\* A name of exactly the form opa_<8 digits>-<6 digits>
ExactForm(n) == Len(n) = 19 /\ MatchesAt(n, 1)

\* The greatest of a non-empty set of names
GreatestName(S) == CHOOSE x \in S : \A y \in S \ {x} : Less(y, x)

\* C37: a constructed StoreManager has as previous the entry with the
\* greatest name among the entries that existed before and are named exactly
\* opa_<8 digits>-<6 digits>, and the empty path when there is none.
C37_PreviousIsNewestGeneration ==
  store.phase = "constructed" =>
    LET G == {n \in Names : store.pre[n] # "absent" /\ ExactForm(n)}
    IN store.previous = IF G = {} THEN <<>> ELSE GreatestName(G)

\* C38: retention pruning removes and changes only entries that are named
\* exactly opa_<8 digits>-<6 digits>; last, last.log and every other entry
\* stay as they were.
C38_PruningTouchesOnlyGenerations ==
  store.phase \in {"cleaned", "cleanup_raised"} =>
    \A n \in Names : ~ExactForm(n) => store.root[n] = store.pre[n]

\* Positions of main between the creation of the generation and the preflight
UpToPreflight == {"versions", "skip", "run", "cleanup_before", "construct", "preflight"}

\* C39: the preflight compares against the free-space figure that was
\* captured when the current generation was created: the figure is the
\* partition's at that moment, nothing changes it up to the preflight, and the
\* preflight fails exactly when the requirement exceeds it, whatever
\* cleanup_before has freed since.
C39_PreflightUsesCapturedFigure ==
  [][/\ pc' = "versions" => bytesFree' = freeNow'
     /\ pc \in UpToPreflight => bytesFree' = bytesFree
     /\ pc = "preflight" =>
          (exitPlan' = "nospace" <=> Required10(strategy, srcBytes) > 10 * bytesFree)]_vars

C39_Witness ==
  /\ pc = "report"
  /\ exitPlan = "nospace"
  /\ cleanupArg # -1
  /\ removed # <<>>
  /\ freeNow > bytesFree
  /\ Required10(strategy, srcBytes) <= 10 * freeNow

\* C40: a second construction of StoreManager on the same backup root within
\* the same second, after or side by side with a first one that succeeded,
\* succeeds too, has the same current generation directory, and leaves the
\* entries of the backup root as the first construction left them.
C40_SameSecondConstruction ==
  [][(store.phase = "constructed" /\ store.again = <<>> /\ store'.again # <<>>) =>
       /\ store'.again.phase = "constructed"
       /\ store'.again.current = store.current
       /\ store'.root = store.root]_vars

C40_Witness ==
  /\ store.phase = "constructed"
  /\ store.again # <<>>
  /\ store.again.phase = "constructed"
  /\ store.again.current = store.current
  /\ store.pre[store.current] = "absent"
  /\ store.again.previous # store.previous

====
